---- MODULE Spec2Model ----
(***************************************************************************)
(* Verification model of the smart-support routing engine.                 *)
(*                                                                         *)
(*   - the agent registry and routing coordinator                          *)
(*     (src/routing/skill_routing.py)                                      *)
(*   - the in-memory priority queue                                        *)
(*     (src/ticket_queue/priority_queue.py)                                *)
(*   - the circuit breaker (src/routing/circuit_breaker.py)                *)
(*   - the semantic deduplicator (src/ml/deduplication.py)                 *)
(*   - the Redis broker (src/broker/async_broker.py)                       *)
(*                                                                         *)
(* Urgencies, priorities and skill proficiencies are floats in [0,1] in    *)
(* the source; here they are integers in hundredths (0.85 is 85).  Times   *)
(* are whole seconds of one clock, `now`, that the Tick action advances.   *)
(* Python dicts keep insertion order, which min()/max() and the loops over *)
(* the agents observe, so a dict is a sequence of its values in insertion  *)
(* order, keyed by a field of the value.                                   *)
(***************************************************************************)
EXTENDS Integers, Sequences, FiniteSets, TLC

VARIABLES
    agents,               \* AgentRegistry._agents, in registration order
    now,                  \* time.time()
    assignment_history,   \* AgentRegistry._assignment_history
    preemption_history,   \* AgentRegistry._preemption_history
    last,                 \* the last registry call: its arguments and what it returned
    calls,                \* how many registry calls have been made
    heap,                 \* PriorityQueue._heap
    ticket_index,         \* PriorityQueue._ticket_index, in insertion order
    dequeued,             \* the tickets dequeue has returned, oldest first
    qlast,                \* the last queue call: its arguments and what it returned
    qcalls,               \* how many queue calls have been made
    cb,                   \* a CircuitBreaker: _state, the counters, the latency ring
    cb_now,               \* time.time() as the breaker reads it
    cb_last,              \* the last breaker call: its argument and what it returned
    cb_run,               \* the run of identical outcomes reported to the breaker
    cb_calls,             \* how many breaker calls have been made
    dd_tickets,           \* SemanticDeduplicator._tickets
    dd_masters,           \* SemanticDeduplicator._master_incidents, in insertion order
    dd_now,               \* datetime.now() as the deduplicator reads it, in minutes
    dd_last,              \* the last add_ticket call: its arguments and what it returned
    dd_counts,            \* how many tickets of each kind have been submitted
    bk,                   \* an AsyncBroker: _connected and the four Redis keys
    bk_last,              \* the last broker call: its arguments and what it returned
    bk_log,               \* the ids published and the ids consume has returned, in order
    wk,                   \* the worker loop: where it stands, the ticket it holds, what it has done
    pq                    \* AsyncBroker._running and _workers, and the threads start_worker started

registryVars == <<agents, now, assignment_history, preemption_history, last, calls>>
queueVars == <<heap, ticket_index, dequeued, qlast, qcalls>>
breakerVars == <<cb, cb_now, cb_last, cb_run, cb_calls>>
dedupVars == <<dd_tickets, dd_masters, dd_now, dd_last, dd_counts>>
brokerVars == <<bk, bk_last, bk_log>>
workerVars == <<wk, pq>>
nonRegistryVars == <<queueVars, breakerVars, dedupVars, brokerVars, workerVars>>
nonQueueVars == <<registryVars, breakerVars, dedupVars, brokerVars, workerVars>>
nonBreakerVars == <<registryVars, queueVars, dedupVars, brokerVars, workerVars>>
nonDedupVars == <<registryVars, queueVars, breakerVars, brokerVars, workerVars>>
nonBrokerVars == <<registryVars, queueVars, breakerVars, dedupVars, workerVars>>
vars == <<agents, now, assignment_history, preemption_history, last, calls,
          heap, ticket_index, dequeued, qlast, qcalls,
          cb, cb_now, cb_last, cb_run, cb_calls,
          dd_tickets, dd_masters, dd_now, dd_last, dd_counts,
          bk, bk_last, bk_log, wk, pq>>

----------------------------------------------------------------------------
(* Bounds of the model *)

MaxAgents == 2        \* agents that register
MaxCapacity == 2      \* capacities an agent registers with: 1..MaxCapacity
MaxTicketId == 3      \* ticket ids 1..MaxTicketId
MaxTicks == 2         \* the clock stops after MaxTicks ticks
MaxCalls == 4         \* registry calls made after the agents have registered
MaxMixedCalls == 3    \* registry calls made in a run over the mixed ticket ids

MaxQueueIds == 2      \* ids of the tickets enqueued: 1..MaxQueueIds
MaxQueueCalls == 5    \* calls made on the queue in one run
MaxTimestamp == 1     \* timestamps the callers of enqueue supply: 0..MaxTimestamp
MaxBreakerCalls == 11 \* calls made on the circuit breaker in one run
MaxBreakerTicks == 2  \* steps of the breaker's clock in one run
MaxStarts == 2          \* start_worker calls in one run
MaxRegistered == 1      \* worker functions given to register_worker
MaxQueueTickets == 2    \* tickets published beside process_queue
MaxClassifyCalls == 8   \* calls made on the ML router in one run
MaxExecuteCalls == 12 \* execute calls made on the circuit breaker in one run
BreakerTickSeconds == 15  \* seconds the breaker's clock advances in one step
MaxDedupAdds == 22    \* add_ticket calls in one run
MaxUnusual == 1       \* of them, tickets with another text or under an id used before
MaxDedupTicks == 3    \* steps of the deduplicator's clock in one run
DedupTickMinutes == 4 \* minutes the deduplicator's clock advances in one step
MaxBrokerIds == 3     \* tickets published in one run, under the ids 1..MaxBrokerIds
MaxBrokerSteps == 7   \* broker calls made in one run
MaxConsumers == 2     \* worker loops that call consume_ticket
MaxWorkerTickets == 3   \* tickets the app publishes in one run of the worker
MaxStormTickets == 12   \* tickets the app publishes in a storm, the first with another text
MaxBacklog == 2         \* tickets waiting in tickets:queue
MaxWorkerHours == 2     \* hours that pass in one run of the worker

\* seconds the clock advances in one step: half an ETA
TickSeconds == 30

\* The urgency the classifier gives ticket ticket_id, in hundredths: a routine
\* ticket, two urgent ones above the preemption threshold, a second routine
\* one of the same urgency as the first, and one between the two levels.
UrgencyOf(ticket_id) ==
    CASE ticket_id % 5 = 1 -> 20
      [] ticket_id % 5 = 2 -> 90
      [] ticket_id % 5 = 3 -> 95
      [] ticket_id % 5 = 4 -> 20
      [] OTHER -> 50

\* categories of incoming tickets
Categories == {"billing", "technical"}

----------------------------------------------------------------------------
(* Program constants (src/config.py) *)

ETA_BASE_SECONDS == 60
GENERALIST_THRESHOLD == 50
PREEMPTION_URGENCY_THRESHOLD == 85
HIGH_URGENCY_THRESHOLD == 80

\* skills.get(category, 0.5) of _calculate_agent_score, in hundredths
DefaultSkill == 50

\* CircuitBreakerConfig (src/routing/circuit_breaker.py) and the ring's sizes
failure_threshold == 5
success_threshold == 2
timeout_seconds == 30
latency_threshold_ms == 500
max_latency_history == 100
MinLatencySamples == 10

\* the deduplication settings of src/config.py, the similarity in hundredths
SIMILARITY_THRESHOLD == 90
DUPLICATE_TIME_WINDOW_MINUTES == 5
DUPLICATE_COUNT_THRESHOLD == 10

----------------------------------------------------------------------------
(* Values that stand for Python's None *)

NoTicket == 0     \* ticket_id None
NoAgent == 0      \* agent_id None
NoTime == -1      \* paused_at None
NoError == "None" \* error None

AgentStatuses == {"available", "busy", "offline"}

TicketIds == 1..MaxTicketId

\* tickets of which two share the lowest urgency and one lies between it and
\* the preemption threshold: urgencies 0.2, 0.9, 0.2, 0.5
MixedTicketIds == {1, 2, 4, 5}

\* a routine ticket and an urgent one: urgencies 0.2, 0.9
ServedTicketIds == {1, 2}
AgentIds == 1..MaxAgents

\* The skill vectors the agents register with (those of src/test_system.py's
\* Alice and Bob, the second made a generalist by a legal skill).
SkillsOf(id) ==
    IF id % 2 = 1
    THEN [billing |-> 90, technical |-> 30]
    ELSE [billing |-> 50, technical |-> 95, legal |-> 50]

\* skills.get(skill, default)
SkillGet(id, skill, default) ==
    IF skill \in DOMAIN SkillsOf(id) THEN SkillsOf(id)[skill] ELSE default

----------------------------------------------------------------------------
(* Dicts as sequences in insertion order *)

\* the position of key k in dict d, 0 when absent
RECURSIVE KeyPos(_, _, _)
KeyPos(d, k, i) ==
    IF i > Len(d) THEN 0
    ELSE IF d[i].ticket_id = k THEN i
    ELSE KeyPos(d, k, i + 1)

HasKey(d, k) == KeyPos(d, k, 1) # 0

\* d[k]
Get(d, k) == d[KeyPos(d, k, 1)]

\* d[k] = v : an existing key keeps its place, a new one goes last
DictSet(d, v) ==
    IF HasKey(d, v.ticket_id)
    THEN [d EXCEPT ![KeyPos(d, v.ticket_id, 1)] = v]
    ELSE Append(d, v)

\* del d[k]
DictDel(d, k) == SelectSeq(d, LAMBDA v : v.ticket_id # k)

----------------------------------------------------------------------------
(* AssignedTicket *)

\* AssignedTicket(ticket_id, ..., urgency, eta_seconds): a new Active record.
\* category and description are carried but never read by the registry.
AssignedTicket(ticket_id, urgency, eta, clock) ==
    [ticket_id |-> ticket_id,
     urgency |-> urgency,
     status |-> "active",
     eta_seconds |-> eta,
     started_at |-> clock,
     paused_at |-> NoTime,
     elapsed_before_pause |-> 0]

Max0(x) == IF x < 0 THEN 0 ELSE x

\* remaining_eta() that counts the time since the pause as service
remaining_eta_counting_pause(t, clock) ==
    IF t.status = "completed" THEN 0
    ELSE IF t.status = "paused"
         THEN Max0(t.eta_seconds - (t.elapsed_before_pause + (clock - t.paused_at)))
         ELSE Max0(t.eta_seconds - (t.elapsed_before_pause + (clock - t.started_at)))

remaining_eta(t, clock) ==
    IF t.status = "completed" THEN 0
    ELSE IF t.status = "paused"
         THEN Max0(t.eta_seconds - t.elapsed_before_pause)
         ELSE Max0(t.eta_seconds - (t.elapsed_before_pause + (clock - t.started_at)))

is_expired(t, clock) == t.status = "active" /\ remaining_eta(t, clock) <= 0

----------------------------------------------------------------------------
(* Agent *)

Agent(agent_id, capacity) ==
    [agent_id |-> agent_id,
     capacity |-> capacity,
     current_load |-> 0,
     status |-> "available",
     assigned_tickets |-> <<>>]

can_accept_ticket(a) == a.status = "available" /\ a.current_load < a.capacity

\* accept_ticket that forgets to count the ticket in current_load
accept_ticket_load_not_counted(a, ticket) ==
    IF can_accept_ticket(a)
    THEN [a EXCEPT !.assigned_tickets = DictSet(@, ticket)]
    ELSE a

\* the agent after accept_ticket(ticket)
accept_ticket(a, ticket) ==
    IF can_accept_ticket(a)
    THEN [a EXCEPT !.current_load = @ + 1,
                   !.assigned_tickets = DictSet(@, ticket)]
    ELSE a

\* release_ticket(ticket_id): the agent afterwards and the value returned
release_ticket(a, ticket_id) ==
    IF ticket_id # NoTicket /\ HasKey(a.assigned_tickets, ticket_id)
    THEN [agent |-> [a EXCEPT !.assigned_tickets = DictDel(@, ticket_id),
                              !.current_load = IF @ > 0 THEN @ - 1 ELSE @],
          ok |-> TRUE]
    ELSE IF a.current_load > 0
    THEN [agent |-> [a EXCEPT !.current_load = @ - 1], ok |-> TRUE]
    ELSE [agent |-> a, ok |-> FALSE]

pause_ticket(a, ticket_id, clock) ==
    IF HasKey(a.assigned_tickets, ticket_id)
       /\ Get(a.assigned_tickets, ticket_id).status = "active"
    THEN [a EXCEPT !.assigned_tickets[KeyPos(a.assigned_tickets, ticket_id, 1)] =
             [@ EXCEPT !.elapsed_before_pause = @ + (clock - Get(a.assigned_tickets, ticket_id).started_at),
                       !.paused_at = clock,
                       !.status = "paused"]]
    ELSE a

resume_ticket(a, ticket_id, clock) ==
    IF HasKey(a.assigned_tickets, ticket_id)
       /\ Get(a.assigned_tickets, ticket_id).status = "paused"
    THEN [a EXCEPT !.assigned_tickets[KeyPos(a.assigned_tickets, ticket_id, 1)] =
             [@ EXCEPT !.started_at = clock,
                       !.paused_at = NoTime,
                       !.status = "active"]]
    ELSE a

\* min(seq, key = urgency): the first of the least, 0 when seq is empty
RECURSIVE MinPos(_, _, _)
MinPos(seq, i, best) ==
    IF i > Len(seq) THEN best
    ELSE IF best = 0 \/ seq[i].urgency < seq[best].urgency
         THEN MinPos(seq, i + 1, i)
         ELSE MinPos(seq, i + 1, best)

\* max(seq, key = urgency): the first of the greatest, 0 when seq is empty
RECURSIVE MaxPos(_, _, _)
MaxPos(seq, i, best) ==
    IF i > Len(seq) THEN best
    ELSE IF best = 0 \/ seq[i].urgency > seq[best].urgency
         THEN MaxPos(seq, i + 1, i)
         ELSE MaxPos(seq, i + 1, best)

ActiveTickets(a) == SelectSeq(a.assigned_tickets, LAMBDA t : t.status = "active")
PausedTickets(a) == SelectSeq(a.assigned_tickets, LAMBDA t : t.status = "paused")

\* the ticket id of get_lowest_urgency_active_ticket(), NoTicket for None
get_lowest_urgency_active_ticket(a) ==
    IF ActiveTickets(a) = <<>> THEN NoTicket
    ELSE ActiveTickets(a)[MinPos(ActiveTickets(a), 1, 0)].ticket_id

is_generalist(agent_id) ==
    \A cat \in {"billing", "technical", "legal"} :
        SkillGet(agent_id, cat, 0) >= GENERALIST_THRESHOLD

----------------------------------------------------------------------------
(* AgentRegistry *)

\* TicketRequest(ticket_id, category, urgency, description, required_skills)
TicketRequest(ticket_id, category, urgency, required_skills) ==
    [ticket_id |-> ticket_id, category |-> category, urgency |-> urgency,
     required_skills |-> required_skills]

compute_eta(urgency) == ETA_BASE_SECONDS

RECURSIVE SumSkills(_, _, _)
SumSkills(agent_id, skills, i) ==
    IF i > Len(skills) THEN 0
    ELSE SkillGet(agent_id, skills[i], 0) + SumSkills(agent_id, skills, i + 1)

\* how many skills the skill score is averaged over
SkillDen(ticket) ==
    IF ticket.required_skills # <<>> THEN Len(ticket.required_skills) ELSE 1

\* skill_score * SkillDen(ticket), in hundredths, after the generalist bonus
SkillScore(a, ticket) ==
    LET raw == IF ticket.required_skills # <<>>
               THEN SumSkills(a.agent_id, ticket.required_skills, 1)
               ELSE SkillGet(a.agent_id, ticket.category, DefaultSkill)
    IN  IF is_generalist(a.agent_id) /\ raw < GENERALIST_THRESHOLD * SkillDen(ticket)
        THEN GENERALIST_THRESHOLD * SkillDen(ticket)
        ELSE raw

\* urgency_weight = 0.7 + 0.3 * urgency, in ten-thousandths
UrgencyWeight(ticket) == 7000 + 30 * ticket.urgency

\* _calculate_agent_score(agent, ticket) * capacity * SkillDen(ticket) * 10^6:
\* score = skill_score * urgency_weight + (1 - load / capacity) * (1 - urgency_weight).
\* The source computes in binary floating point; the model computes exactly.
calculate_agent_score(a, ticket) ==
    SkillScore(a, ticket) * UrgencyWeight(ticket) * a.capacity
    + (a.capacity - a.current_load) * 100 * SkillDen(ticket) * (10000 - UrgencyWeight(ticket))

\* score(a) > score(b)
ScoreGreater(a, b, ticket) ==
    calculate_agent_score(a, ticket) * b.capacity
        > calculate_agent_score(b, ticket) * a.capacity

\* the loop of route_ticket_with_preemption over available_agents: the
\* position of the first agent of the highest score (best = 0 is None)
RECURSIVE BestAgent(_, _, _, _)
BestAgent(ags, ticket, i, best) ==
    IF i > Len(ags) THEN best
    ELSE IF can_accept_ticket(ags[i])
            /\ (best = 0 \/ ScoreGreater(ags[i], ags[best], ticket))
         THEN BestAgent(ags, ticket, i + 1, i)
         ELSE BestAgent(ags, ticket, i + 1, best)

\* _resume_next_paused that takes min() for max(): the lowest-urgency paused ticket
resume_lowest_paused(a, clock) ==
    IF PausedTickets(a) # <<>>
    THEN resume_ticket(a, PausedTickets(a)[MinPos(PausedTickets(a), 1, 0)].ticket_id, clock)
    ELSE a

\* _resume_next_paused(agent)
resume_next_paused(a, clock) ==
    IF PausedTickets(a) # <<>>
    THEN resume_ticket(a, PausedTickets(a)[MaxPos(PausedTickets(a), 1, 0)].ticket_id, clock)
    ELSE a

\* the ids of the tickets of an agent that is_expired(), in dict order
ExpiredIds(a, clock) ==
    LET exp == SelectSeq(a.assigned_tickets, LAMBDA t : is_expired(t, clock))
    IN  [i \in 1..Len(exp) |-> exp[i].ticket_id]

\* the inner loop of _auto_complete_expired over one agent's expired ids
RECURSIVE ReleaseExpired(_, _, _, _)
ReleaseExpired(a, ids, i, clock) ==
    IF i > Len(ids) THEN a
    ELSE ReleaseExpired(resume_next_paused(release_ticket(a, ids[i]).agent, clock),
                        ids, i + 1, clock)

\* _auto_complete_expired(): the agents afterwards
auto_complete_expired(ags, clock) ==
    [i \in 1..Len(ags) |-> ReleaseExpired(ags[i], ExpiredIds(ags[i], clock), 1, clock)]

\* the loop of _preempt_for_ticket without its test t.urgency < ticket.urgency
RECURSIVE PreemptScanAnyUrgency(_, _, _, _)
PreemptScanAnyUrgency(ags, ticket, i, best) ==
    IF i > Len(ags) THEN best
    ELSE LET a == ags[i]
             tid == get_lowest_urgency_active_ticket(a)
             u == Get(a.assigned_tickets, tid).urgency
             lowest == Get(ags[best].assigned_tickets,
                           get_lowest_urgency_active_ticket(ags[best])).urgency
         IN  IF a.status # "offline" /\ tid # NoTicket
                /\ (best = 0 \/ u < lowest)
             THEN PreemptScanAnyUrgency(ags, ticket, i + 1, i)
             ELSE PreemptScanAnyUrgency(ags, ticket, i + 1, best)

\* the loop of _preempt_for_ticket without its test t.urgency < lowest_urgency:
\* the first agent that holds a ticket of lower urgency than the incoming one
RECURSIVE PreemptScanFirstFound(_, _, _, _)
PreemptScanFirstFound(ags, ticket, i, best) ==
    IF i > Len(ags) THEN best
    ELSE LET a == ags[i]
             tid == get_lowest_urgency_active_ticket(a)
             u == Get(a.assigned_tickets, tid).urgency
         IN  IF a.status # "offline" /\ tid # NoTicket
                /\ best = 0
                /\ u < ticket.urgency
             THEN PreemptScanFirstFound(ags, ticket, i + 1, i)
             ELSE PreemptScanFirstFound(ags, ticket, i + 1, best)

\* the loop of _preempt_for_ticket: the position of best_agent after agents
\* i.. have been visited (0 is None); lowest_ticket is its lowest active ticket
RECURSIVE PreemptScan(_, _, _, _)
PreemptScan(ags, ticket, i, best) ==
    IF i > Len(ags) THEN best
    ELSE LET a == ags[i]
             tid == get_lowest_urgency_active_ticket(a)
             u == Get(a.assigned_tickets, tid).urgency
             lowest == Get(ags[best].assigned_tickets,
                           get_lowest_urgency_active_ticket(ags[best])).urgency
         IN  IF a.status # "offline" /\ tid # NoTicket
                /\ (best = 0 \/ u < lowest)
                /\ u < ticket.urgency
             THEN PreemptScan(ags, ticket, i + 1, i)
             ELSE PreemptScan(ags, ticket, i + 1, best)

\* _preempt_for_ticket(ticket): the agents and histories afterwards and the
\* pair returned
preempt_for_ticket(ags, ticket, clock, ahist, phist) ==
    LET best == PreemptScan(ags, ticket, 1, 0)
        victim == get_lowest_urgency_active_ticket(ags[best])
        paused == pause_ticket(ags[best], victim, clock)
        swapped == accept_ticket([paused EXCEPT !.current_load = @ - 1],
                                 AssignedTicket(ticket.ticket_id, ticket.urgency,
                                                compute_eta(ticket.urgency), clock))
    IN  IF best # 0
        THEN [agents |-> [ags EXCEPT ![best] = swapped],
              agent_id |-> best,
              preempted |-> victim,
              assignment_history |->
                  Append(ahist, [ticket_id |-> ticket.ticket_id, agent_id |-> best,
                                 preempted |-> TRUE, preempted_ticket |-> victim]),
              preemption_history |->
                  Append(phist, [urgent_ticket_id |-> ticket.ticket_id,
                                 urgent_urgency |-> ticket.urgency,
                                 paused_ticket_id |-> victim,
                                 paused_urgency |-> Get(ags[best].assigned_tickets, victim).urgency,
                                 agent_id |-> best])]
        ELSE [agents |-> ags, agent_id |-> NoAgent, preempted |-> NoTicket,
              assignment_history |-> ahist, preemption_history |-> phist]

\* route_ticket_with_preemption without its test of the preemption threshold
route_preempting_at_any_urgency(ags, ticket, clock, ahist, phist) ==
    LET swept == auto_complete_expired(ags, clock)
        best == BestAgent(swept, ticket, 1, 0)
    IN  IF best # 0
        THEN [agents |-> [swept EXCEPT ![best] =
                            accept_ticket(@, AssignedTicket(ticket.ticket_id, ticket.urgency,
                                                            compute_eta(ticket.urgency), clock))],
              agent_id |-> best,
              preempted |-> NoTicket,
              assignment_history |->
                  Append(ahist, [ticket_id |-> ticket.ticket_id, agent_id |-> best,
                                 preempted |-> FALSE, preempted_ticket |-> NoTicket]),
              preemption_history |-> phist]
        ELSE preempt_for_ticket(swept, ticket, clock, ahist, phist)

\* route_ticket_with_preemption(ticket): the agents and histories afterwards
\* and the pair returned
route_ticket_with_preemption(ags, ticket, clock, ahist, phist) ==
    LET swept == auto_complete_expired(ags, clock)
        best == BestAgent(swept, ticket, 1, 0)
    IN  IF best # 0
        THEN [agents |-> [swept EXCEPT ![best] =
                            accept_ticket(@, AssignedTicket(ticket.ticket_id, ticket.urgency,
                                                            compute_eta(ticket.urgency), clock))],
              agent_id |-> best,
              preempted |-> NoTicket,
              assignment_history |->
                  Append(ahist, [ticket_id |-> ticket.ticket_id, agent_id |-> best,
                                 preempted |-> FALSE, preempted_ticket |-> NoTicket]),
              preemption_history |-> phist]
        ELSE IF ticket.urgency >= PREEMPTION_URGENCY_THRESHOLD
        THEN preempt_for_ticket(swept, ticket, clock, ahist, phist)
        ELSE [agents |-> swept, agent_id |-> NoAgent, preempted |-> NoTicket,
              assignment_history |-> ahist, preemption_history |-> phist]

\* complete_ticket(agent_id, ticket_id): the agents afterwards and the value returned
complete_ticket(ags, agent_id, ticket_id, clock) ==
    IF agent_id \notin 1..Len(ags)
    THEN [agents |-> ags, ok |-> FALSE]
    ELSE LET r == release_ticket(ags[agent_id], ticket_id)
         IN  IF r.ok
             THEN [agents |-> [ags EXCEPT ![agent_id] = resume_next_paused(r.agent, clock)],
                   ok |-> TRUE]
             ELSE [agents |-> [ags EXCEPT ![agent_id] = r.agent], ok |-> FALSE]

\* release_ticket_by_id(agent_id)
release_ticket_by_id(ags, agent_id) ==
    IF agent_id \in 1..Len(ags)
    THEN [agents |-> [ags EXCEPT ![agent_id] = release_ticket(@, NoTicket).agent],
          ok |-> release_ticket(ags[agent_id], NoTicket).ok]
    ELSE [agents |-> ags, ok |-> FALSE]

\* update_agent_status(agent_id, status)
update_agent_status(ags, agent_id, status) ==
    IF agent_id \notin 1..Len(ags)
    THEN [agents |-> ags, ok |-> FALSE]
    ELSE [agents |-> [ags EXCEPT ![agent_id].status = status], ok |-> TRUE]

----------------------------------------------------------------------------
(* Ticket and heapq (src/ticket_queue/priority_queue.py) *)

\* priorities the callers of enqueue and update_priority supply, in hundredths
Priorities == {20, 90}

\* Ticket(priority, timestamp, ticket_id, ..., urgency): __post_init__ negates
\* the priority.  subject, description, category, status, created_at and
\* metadata are carried but never read by the queue.
Ticket(priority, timestamp, ticket_id, urgency) ==
    [priority |-> 0 - priority, timestamp |-> timestamp,
     ticket_id |-> ticket_id, urgency |-> urgency]

\* dequeue's None
NoneTicket == [priority |-> 0, timestamp |-> NoTime, ticket_id |-> NoTicket, urgency |-> 0]

\* an ordering that leaves the timestamp out
TicketLess_priority_only(a, b) == a.priority < b.priority

\* a < b of @dataclass(order=True): the tuples (priority, timestamp) compared
TicketLess(a, b) ==
    a.priority < b.priority \/ (a.priority = b.priority /\ a.timestamp < b.timestamp)

\* a == b of the dataclass: only the fields with compare=True
TicketEq(a, b) == a.priority = b.priority /\ a.timestamp = b.timestamp

\* heapq._siftdown(heap, startpos, pos) from the while loop on, newitem in hand;
\* positions count from 0 as in the source
RECURSIVE siftdown_loop(_, _, _, _)
siftdown_loop(h, startpos, pos, newitem) ==
    IF pos > startpos /\ TicketLess(newitem, h[((pos - 1) \div 2) + 1])
    THEN siftdown_loop([h EXCEPT ![pos + 1] = h[((pos - 1) \div 2) + 1]],
                       startpos, (pos - 1) \div 2, newitem)
    ELSE [h EXCEPT ![pos + 1] = newitem]

siftdown(h, startpos, pos) == siftdown_loop(h, startpos, pos, h[pos + 1])

\* the while loop of heapq._siftup: the smaller child moves up until a leaf
\* is reached; the heap and the leaf position reached
RECURSIVE siftup_loop(_, _)
siftup_loop(h, pos) ==
    LET childpos == 2 * pos + 1
        rightpos == childpos + 1
        smaller == IF rightpos < Len(h) /\ ~TicketLess(h[childpos + 1], h[rightpos + 1])
                   THEN rightpos ELSE childpos
    IN  IF childpos < Len(h)
        THEN siftup_loop([h EXCEPT ![pos + 1] = h[smaller + 1]], smaller)
        ELSE [heap |-> h, pos |-> pos]

\* _siftup that never looks at the right child
siftup_left_child_only(h, pos) ==
    LET RECURSIVE loop(_, _)
        loop(g, q) == IF 2 * q + 1 < Len(g)
                      THEN loop([g EXCEPT ![q + 1] = g[2 * q + 2]], 2 * q + 1)
                      ELSE [heap |-> g, pos |-> q]
        r == loop(h, pos)
    IN  siftdown([r.heap EXCEPT ![r.pos + 1] = h[pos + 1]], pos, r.pos)

\* heapq._siftup(heap, pos)
siftup(h, pos) ==
    LET r == siftup_loop(h, pos)
    IN  siftdown([r.heap EXCEPT ![r.pos + 1] = h[pos + 1]], pos, r.pos)

\* heapq.heappush(heap, item)
heappush(h, item) == siftdown(Append(h, item), 0, Len(h))

\* heapq.heappop(heap) on a non-empty heap: the heap afterwards and the item returned
heappop(h) ==
    IF Len(h) = 1
    THEN [heap |-> <<>>, item |-> h[1]]
    ELSE [heap |-> siftup([SubSeq(h, 1, Len(h) - 1) EXCEPT ![1] = h[Len(h)]], 0),
          item |-> h[1]]

\* heapq.heapify(x): _siftup(x, i) for i from len(x) // 2 - 1 down to 0
RECURSIVE heapify_from(_, _)
heapify_from(h, i) == IF i < 0 THEN h ELSE heapify_from(siftup(h, i), i - 1)

heapify(h) == heapify_from(h, (Len(h) \div 2) - 1)

\* list.remove(ticket): the position of the first element equal to ticket, 0 for ValueError
RECURSIVE FirstEqual(_, _, _)
FirstEqual(h, ticket, i) ==
    IF i > Len(h) THEN 0
    ELSE IF TicketEq(h[i], ticket) THEN i
    ELSE FirstEqual(h, ticket, i + 1)

RemoveAt(h, i) == SubSeq(h, 1, i - 1) \o SubSeq(h, i + 1, Len(h))

----------------------------------------------------------------------------
(* PriorityQueue *)

\* enqueue(ticket): the heap and the index afterwards
enqueue(h, index, ticket) ==
    [heap |-> heappush(h, ticket), ticket_index |-> DictSet(index, ticket)]

\* dequeue(): the heap and the index afterwards and the ticket returned
dequeue(h, index) ==
    IF h = <<>>
    THEN [heap |-> h, ticket_index |-> index, ticket |-> NoneTicket]
    ELSE [heap |-> heappop(h).heap,
          ticket_index |-> DictDel(index, heappop(h).item.ticket_id),
          ticket |-> heappop(h).item]

\* _remove_ticket(ticket): the heap afterwards
remove_ticket(h, ticket) ==
    IF FirstEqual(h, ticket, 1) # 0
    THEN heapify(RemoveAt(h, FirstEqual(h, ticket, 1)))
    ELSE h

\* update_priority(ticket_id, new_priority): the heap and the index
\* afterwards and the value returned
update_priority(h, index, ticket_id, new_priority) ==
    IF ~HasKey(index, ticket_id)
    THEN [heap |-> h, ticket_index |-> index, ok |-> FALSE]
    ELSE LET old_ticket == Get(index, ticket_id)
             new_ticket == Ticket(new_priority, old_ticket.timestamp,
                                  old_ticket.ticket_id, old_ticket.urgency)
             r == enqueue(remove_ticket(h, old_ticket), index, new_ticket)
         IN  [heap |-> r.heap, ticket_index |-> r.ticket_index, ok |-> TRUE]

size(h) == Len(h)

----------------------------------------------------------------------------
(* CircuitBreaker (src/routing/circuit_breaker.py) *)

CircuitStates == {"closed", "open", "half_open"}

\* record_failure() called without latency_ms: None, which `if latency_ms`
\* treats as it treats 0
NoLatency == 0

\* latencies in milliseconds the callers measure: one under the threshold,
\* one over it
Latencies == {100, 600}

\* CircuitBreaker.__init__
CircuitBreaker ==
    [state |-> "closed", failure_count |-> 0, success_count |-> 0,
     last_failure_time |-> NoTime, latency_history |-> <<>>]

\* _should_attempt_reset()
should_attempt_reset(b, clock) ==
    IF b.last_failure_time = NoTime
    THEN TRUE
    ELSE clock - b.last_failure_time >= timeout_seconds

\* the state property: the breaker after the read; its state field is the
\* value returned
state(b, clock) ==
    IF b.state = "open" /\ should_attempt_reset(b, clock)
    THEN [b EXCEPT !.state = "half_open"]
    ELSE b

\* is_available(): the value returned
is_available(b, clock) == state(b, clock).state # "open"

\* record_success()
record_success(b) ==
    IF b.state = "half_open"
    THEN IF b.success_count + 1 >= success_threshold
         THEN [b EXCEPT !.state = "closed", !.failure_count = 0, !.success_count = 0]
         ELSE [b EXCEPT !.success_count = b.success_count + 1]
    ELSE [b EXCEPT !.failure_count = 0]

\* _trigger_open()
trigger_open(b) == [b EXCEPT !.state = "open"]

\* record_failure that opens on the failure count only
record_failure_count_only(b, latency_ms, clock) ==
    LET c == [b EXCEPT !.failure_count = b.failure_count + 1,
                       !.last_failure_time = clock]
    IN  IF c.failure_count >= failure_threshold THEN trigger_open(c) ELSE c

\* record_failure that never looks at the failure count
record_failure_latency_only(b, latency_ms, clock) ==
    LET c == [b EXCEPT !.failure_count = b.failure_count + 1,
                       !.last_failure_time = clock]
    IN  IF latency_ms # NoLatency /\ latency_ms > latency_threshold_ms
        THEN trigger_open(c) ELSE c

\* record_failure(latency_ms)
record_failure(b, latency_ms, clock) ==
    LET c == [b EXCEPT !.failure_count = b.failure_count + 1,
                       !.last_failure_time = clock]
        d == IF latency_ms # NoLatency /\ latency_ms > latency_threshold_ms
             THEN trigger_open(c) ELSE c
    IN  IF d.failure_count >= failure_threshold THEN trigger_open(d) ELSE d

RECURSIVE SumSeq(_, _)
SumSeq(seq, i) == IF i > Len(seq) THEN 0 ELSE seq[i] + SumSeq(seq, i + 1)

\* sum(history) / len(history), rounded up to whole milliseconds: the
\* rounded value exceeds the integer threshold exactly when the mean does
avg_latency(history) == (SumSeq(history, 1) + Len(history) - 1) \div Len(history)

\* record_latency(latency_ms)
record_latency(b, latency_ms, clock) ==
    LET appended == Append(b.latency_history, latency_ms)
        history == IF Len(appended) > max_latency_history THEN Tail(appended) ELSE appended
        c == [b EXCEPT !.latency_history = history]
    IN  IF Len(history) >= MinLatencySamples /\ avg_latency(history) > latency_threshold_ms
        THEN record_failure(c, avg_latency(history), clock)
        ELSE c

\* execute(func) and execute_async(func), func returning or raising after
\* latency_ms: the breaker afterwards and what became of the call
execute(b, outcome, latency_ms, clock) ==
    LET read == state(b, clock)
    IN  IF ~is_available(b, clock)
        THEN [cb |-> read, result |-> "rejected"]
        ELSE IF outcome = "returns"
        THEN [cb |-> record_success(record_latency(read, latency_ms, clock)),
              result |-> "returned"]
        ELSE [cb |-> record_failure(read, latency_ms, clock), result |-> "raised"]

\* reset()
reset(b) ==
    [b EXCEPT !.state = "closed", !.failure_count = 0, !.success_count = 0,
              !.latency_history = <<>>]

\* toggle_circuit_breaker() of src/app.py: the breaker afterwards, the state
\* read for the response included
toggle_circuit_breaker(b, clock) ==
    LET read == state(b, clock)
    IN  IF read.state = "closed"
        THEN state(trigger_open(read), clock)
        ELSE state(reset(read), clock)

----------------------------------------------------------------------------
(* SemanticDeduplicator (src/ml/deduplication.py) *)

\* master_id None
NoMaster == 0

\* the texts submitted: the text of a ticket storm and an unrelated one
Texts == {"storm", "other"}

\* embedding_service.cosine_similarity of the embeddings of two texts, in
\* hundredths: 1 for the same text, well under the threshold for unrelated ones
cosine_similarity(a, b) == IF a = b THEN 100 ELSE 30

\* TicketEntry(ticket_id, subject, description, embedding), created now
TicketEntry(ticket_id, text, clock) ==
    [ticket_id |-> ticket_id, text |-> text, created_at |-> clock, processed |-> FALSE]

Positions(seq) == [i \in 1..Len(seq) |-> i]

\* _find_similar_in_window(new_ticket): the positions in _tickets of the
\* tickets returned, in order
find_similar_in_window(tickets, new_ticket, clock) ==
    LET cutoff_time == clock - DUPLICATE_TIME_WINDOW_MINUTES
    IN  SelectSeq(Positions(tickets),
                  LAMBDA i : /\ ~(tickets[i].created_at < cutoff_time \/ tickets[i].processed)
                             /\ cosine_similarity(new_ticket.text, tickets[i].text)
                                    > SIMILARITY_THRESHOLD)

\* _create_master_incident(new_ticket, similar_tickets): the tickets and
\* the incidents afterwards and the master id returned, the n-th incident
\* created getting id n
create_master_incident(tickets, masters, new_ticket, similar, clock) ==
    LET master_id == Len(masters) + 1
        ticket_ids == Append([k \in 1..Len(similar) |-> tickets[similar[k]].ticket_id],
                             new_ticket.ticket_id)
        master_incident == [master_id |-> master_id, ticket_ids |-> ticket_ids,
                            created_at |-> clock,
                            suppressed_count |-> Len(ticket_ids) - 1]
    IN  [tickets |-> [i \in 1..Len(tickets) |->
                        IF \E k \in 1..Len(similar) : similar[k] = i
                        THEN [tickets[i] EXCEPT !.processed = TRUE]
                        ELSE tickets[i]],
         masters |-> Append(masters, master_incident),
         master_id |-> master_id]

\* the position of the first incident that has ticket_id among its members, 0 for none
RECURSIVE FirstMasterWith(_, _, _)
FirstMasterWith(masters, ticket_id, j) ==
    IF j > Len(masters) THEN 0
    ELSE IF \E k \in 1..Len(masters[j].ticket_ids) : masters[j].ticket_ids[k] = ticket_id
         THEN j
         ELSE FirstMasterWith(masters, ticket_id, j + 1)

\* the loops of add_ticket over similar_tickets and the incidents: the
\* position of the incident the new ticket is linked to, 0 for none
RECURSIVE LinkTarget(_, _, _, _)
LinkTarget(tickets, masters, similar, k) ==
    IF k > Len(similar) THEN 0
    ELSE IF FirstMasterWith(masters, tickets[similar[k]].ticket_id, 1) # 0
         THEN FirstMasterWith(masters, tickets[similar[k]].ticket_id, 1)
         ELSE LinkTarget(tickets, masters, similar, k + 1)

\* a link that leaves suppressed_count as it was
link_without_count(master, ticket_id) ==
    [master EXCEPT !.ticket_ids = Append(master.ticket_ids, ticket_id)]

\* master.ticket_ids.append(ticket_id); master.suppressed_count += 1
link_to_master(master, ticket_id) ==
    [master EXCEPT !.ticket_ids = Append(master.ticket_ids, ticket_id),
                   !.suppressed_count = master.suppressed_count + 1]

\* _cleanup_old_tickets()
cleanup_old_tickets(tickets, clock) ==
    SelectSeq(tickets, LAMBDA t : t.created_at > clock - DUPLICATE_TIME_WINDOW_MINUTES * 2)

\* add_ticket(ticket_id, subject, description): the tickets and the
\* incidents afterwards and the pair returned
add_ticket(tickets, masters, ticket_id, text, clock) ==
    LET ticket_entry == TicketEntry(ticket_id, text, clock)
        similar_tickets == find_similar_in_window(tickets, ticket_entry, clock)
        created == create_master_incident(tickets, masters, ticket_entry, similar_tickets, clock)
        target == LinkTarget(tickets, masters, similar_tickets, 1)
    IN  IF similar_tickets # <<>> /\ Len(similar_tickets) >= DUPLICATE_COUNT_THRESHOLD
        THEN [tickets |-> created.tickets, masters |-> created.masters,
              is_duplicate |-> TRUE, master_id |-> created.master_id]
        ELSE IF similar_tickets # <<>> /\ target # 0
        THEN [tickets |-> tickets,
              masters |-> [masters EXCEPT ![target] = link_to_master(masters[target], ticket_id)],
              is_duplicate |-> TRUE, master_id |-> masters[target].master_id]
        ELSE [tickets |-> cleanup_old_tickets(Append(tickets, ticket_entry), clock),
              masters |-> masters,
              is_duplicate |-> FALSE, master_id |-> NoMaster]

----------------------------------------------------------------------------
(* AsyncBroker (src/broker/async_broker.py, src/queue/async_broker.py) *)

(* The broker keeps its state in four Redis keys.  A Redis key holds a value
   of one type, a command of another type fails with WRONGTYPE and changes
   nothing, and a list or set that becomes empty is deleted.  tickets:queue
   and tickets:dead_letter are only ever lists and tickets:completed only
   ever a set; tickets:processing is given members by SADD (publish_ticket)
   and elements by BRPOPLPUSH (consume_ticket), so its type is part of the
   state: "none" while the key does not exist.  A list has its head first:
   LPUSH prepends, RPOP takes the last element.  A message is identified by
   its ticket_id.  pipeline() is a MULTI/EXEC transaction: every queued
   command runs, and execute() raises afterwards if one of them failed. *)

NoKey == [type |-> "none", members |-> {}, elements |-> <<>>, ttl |-> FALSE]

\* AsyncBroker.__init__ on an empty database
AsyncBroker ==
    [connected |-> FALSE, queue |-> <<>>, processing |-> NoKey,
     completed |-> {}, dead_letter |-> <<>>]

\* AsyncBroker.__init__: _running, _workers, no thread started; beside them
\* whether stop_worker has been called and the ids process_queue has consumed
ProcessQueue ==
    [running |-> FALSE, workers |-> 0, threads |-> <<>>, stopped |-> FALSE,
     consumed |-> {}]

\* SADD tickets:processing ticket_id, then EXPIRE tickets:processing 3600
sadd_expire(key, ticket_id) ==
    IF key.type = "list"
    THEN [key |-> [key EXCEPT !.ttl = TRUE], error |-> TRUE]
    ELSE [key |-> [key EXCEPT !.type = "set", !.members = @ \cup {ticket_id}, !.ttl = TRUE],
          error |-> FALSE]

\* SREM tickets:processing ticket_id
srem(key, ticket_id) ==
    IF key.type = "list" THEN [key |-> key, error |-> TRUE]
    ELSE IF key.members \ {ticket_id} = {} THEN [key |-> NoKey, error |-> FALSE]
    ELSE [key |-> [key EXCEPT !.members = @ \ {ticket_id}], error |-> FALSE]

\* publish_ticket(ticket_data): the broker afterwards and whether it raised
publish_ticket(b, ticket_id) ==
    IF ~b.connected THEN [broker |-> b, raised |-> TRUE]
    ELSE LET added == sadd_expire(b.processing, ticket_id)
         IN  [broker |-> [b EXCEPT !.queue = <<ticket_id>> \o @,
                                   !.processing = added.key],
              raised |-> added.error]

\* consume_ticket(timeout): BRPOPLPUSH tickets:queue tickets:processing; the
\* broker afterwards, the ticket returned (NoTicket for None) and whether it
\* raised
consume_ticket(b) ==
    IF ~b.connected THEN [broker |-> b, ticket |-> NoTicket, raised |-> TRUE]
    ELSE IF b.queue = <<>> THEN [broker |-> b, ticket |-> NoTicket, raised |-> FALSE]
    ELSE IF b.processing.type = "set" THEN [broker |-> b, ticket |-> NoTicket, raised |-> TRUE]
    ELSE [broker |-> [b EXCEPT !.queue = SubSeq(@, 1, Len(@) - 1),
                               !.processing = [@ EXCEPT !.type = "list",
                                                 !.elements = <<b.queue[Len(b.queue)]>> \o @]],
          ticket |-> b.queue[Len(b.queue)],
          raised |-> FALSE]

\* AsyncBroker.complete_ticket(ticket_id): the broker afterwards, the value
\* returned and whether it raised
ack_ticket(b, ticket_id) ==
    IF ~b.connected THEN [broker |-> b, ok |-> FALSE, raised |-> FALSE]
    ELSE LET removed == srem(b.processing, ticket_id)
         IN  [broker |-> [b EXCEPT !.processing = removed.key,
                                   !.completed = @ \cup {ticket_id}],
              ok |-> ~removed.error,
              raised |-> removed.error]

\* fail_ticket(ticket_id, error): the broker afterwards, the value returned
\* and whether it raised; `if error` is false for None and for ""
fail_ticket(b, ticket_id, error) ==
    IF ~b.connected THEN [broker |-> b, ok |-> FALSE, raised |-> FALSE]
    ELSE LET removed == srem(b.processing, ticket_id)
         IN  [broker |-> [b EXCEPT !.processing = removed.key,
                                   !.dead_letter =
                                       IF error # NoError /\ error # ""
                                       THEN <<[ticket_id |-> ticket_id, error |-> error]>> \o @
                                       ELSE @],
              ok |-> ~removed.error,
              raised |-> removed.error]

----------------------------------------------------------------------------
(* The registry as a state machine *)

Last(op, agent_id, ticket_id, urgency, ok, preempted) ==
    [op |-> op, agent_id |-> agent_id, ticket_id |-> ticket_id,
     urgency |-> urgency, ok |-> ok, preempted |-> preempted]

\* The pools register_agent(name, skills, capacity) builds at start-up (as
\* src/app.py and src/worker/worker.py do before any ticket is routed): one
\* to MaxAgents agents, each of a capacity in 1..MaxCapacity, numbered in
\* registration order.
register_agent(ags, capacity) == Append(ags, Agent(Len(ags) + 1, capacity))

RECURSIVE RegisterAll(_, _)
RegisterAll(capacities, i) ==
    IF i = 0 THEN <<>>
    ELSE register_agent(RegisterAll(capacities, i - 1), capacities[i])

Pools ==
    UNION {{RegisterAll(capacities, n) : capacities \in [1..n -> 1..MaxCapacity]}
           : n \in 1..MaxAgents}

InitRegistry ==
    /\ agents \in Pools
    /\ now = 0
    /\ assignment_history = <<>>
    /\ preemption_history = <<>>
    /\ last = Last("init", NoAgent, NoTicket, 0, FALSE, NoTicket)
    /\ calls = 0

\* one more registry call
AgentPositions == 1..Len(agents)

\* the set of the records of an agent's assigned_tickets
Assigned(a) == {a.assigned_tickets[j] : j \in 1..Len(a.assigned_tickets)}

Call == calls < MaxCalls /\ calls' = calls + 1

\* update_agent_status(agent_id, status)
UpdateAgentStatus ==
    /\ Call
    /\ \E agent_id \in AgentIds, status \in AgentStatuses :
          LET r == update_agent_status(agents, agent_id, status)
          IN  /\ agents' = r.agents
              /\ last' = Last("update_agent_status", agent_id, NoTicket, 0, r.ok, NoTicket)
    /\ UNCHANGED <<now, assignment_history, preemption_history>>

\* route_ticket_with_preemption(ticket), and route_ticket(ticket), which
\* returns the first of its pair, for a ticket whose id is one of ids
RouteAmong(ids) ==
    /\ Call
    /\ \E ticket_id \in ids, category \in Categories :
        \E required_skills \in {<<>>, <<category>>} :
          LET urgency == UrgencyOf(ticket_id)
              r == route_ticket_with_preemption(
                       agents, TicketRequest(ticket_id, category, urgency, required_skills),
                       now, assignment_history, preemption_history)
          IN  /\ agents' = r.agents
              /\ assignment_history' = r.assignment_history
              /\ preemption_history' = r.preemption_history
              /\ last' = Last("route", r.agent_id, ticket_id, urgency,
                              r.agent_id # NoAgent, r.preempted)
    /\ UNCHANGED now

Route == RouteAmong(TicketIds)

\* complete_ticket(agent_id, ticket_id) for a ticket id of ids
CompleteTicketAmong(ids) ==
    /\ Call
    /\ \E agent_id \in AgentIds, ticket_id \in ids :
          LET r == complete_ticket(agents, agent_id, ticket_id, now)
          IN  /\ agents' = r.agents
              /\ last' = Last("complete_ticket", agent_id, ticket_id, 0, r.ok, NoTicket)
    /\ UNCHANGED <<now, assignment_history, preemption_history>>

CompleteTicket == CompleteTicketAmong(TicketIds)

\* complete_ticket(agent_id, ticket_id) called from outside for a ticket that
\* is Active on the agent: the service of an Active ticket comes to its end
CompleteActive ==
    /\ \E agent_id \in AgentPositions :
         \E t \in {u \in Assigned(agents[agent_id]) : u.status = "active"} :
          LET r == complete_ticket(agents, agent_id, t.ticket_id, now)
          IN  /\ agents' = r.agents
              /\ last' = Last("complete_ticket", agent_id, t.ticket_id, 0, r.ok, NoTicket)
    /\ UNCHANGED <<now, assignment_history, preemption_history, calls>>

\* release_ticket_by_id(agent_id)
ReleaseTicketById ==
    /\ Call
    /\ \E agent_id \in AgentIds :
          LET r == release_ticket_by_id(agents, agent_id)
          IN  /\ agents' = r.agents
              /\ last' = Last("release_ticket_by_id", agent_id, NoTicket, 0, r.ok, NoTicket)
    /\ UNCHANGED <<now, assignment_history, preemption_history>>

\* time passes
Tick ==
    /\ now < MaxTicks * TickSeconds
    /\ now' = now + TickSeconds
    /\ last' = Last("tick", NoAgent, NoTicket, 0, TRUE, NoTicket)
    /\ UNCHANGED <<agents, assignment_history, preemption_history, calls>>

QLast(op, ticket, priority, ok) ==
    [op |-> op, ticket |-> ticket, priority |-> priority, ok |-> ok]

InitQueue ==
    /\ heap = <<>>
    /\ ticket_index = <<>>
    /\ dequeued = <<>>
    /\ qlast = QLast("init", NoneTicket, 0, FALSE)
    /\ qcalls = 0

QCall == qcalls < MaxQueueCalls /\ qcalls' = qcalls + 1

QueueIds == 1..MaxQueueIds

\* enqueue(Ticket(priority, timestamp, ticket_id, ..., urgency = priority))
Enqueue ==
    /\ QCall
    /\ \E ticket_id \in QueueIds, priority \in Priorities, timestamp \in 0..MaxTimestamp :
          LET ticket == Ticket(priority, timestamp, ticket_id, priority)
              r == enqueue(heap, ticket_index, ticket)
          IN  /\ heap' = r.heap
              /\ ticket_index' = r.ticket_index
              /\ qlast' = QLast("enqueue", ticket, priority, TRUE)
    /\ UNCHANGED dequeued

\* dequeue()
Dequeue ==
    /\ QCall
    /\ LET r == dequeue(heap, ticket_index)
       IN  /\ heap' = r.heap
           /\ ticket_index' = r.ticket_index
           /\ dequeued' = IF r.ticket = NoneTicket THEN dequeued ELSE Append(dequeued, r.ticket)
           /\ qlast' = QLast("dequeue", r.ticket, 0, r.ticket # NoneTicket)

\* update_priority(ticket_id, new_priority); qlast keeps the ticket the index
\* held for ticket_id before the call
UpdatePriority ==
    /\ QCall
    /\ \E ticket_id \in QueueIds, new_priority \in Priorities :
          LET r == update_priority(heap, ticket_index, ticket_id, new_priority)
          IN  /\ heap' = r.heap
              /\ ticket_index' = r.ticket_index
              /\ qlast' = QLast("update_priority",
                                IF r.ok THEN Get(ticket_index, ticket_id)
                                ELSE [NoneTicket EXCEPT !.ticket_id = ticket_id],
                                new_priority, r.ok)
    /\ UNCHANGED dequeued

\* clear()
Clear ==
    /\ QCall
    /\ heap' = <<>>
    /\ ticket_index' = <<>>
    /\ qlast' = QLast("clear", NoneTicket, 0, TRUE)
    /\ UNCHANGED dequeued

BreakerLast(op, latency_ms, result) == [op |-> op, latency_ms |-> latency_ms, result |-> result]

\* the run of identical calls that call op(latency_ms) on breaker b extends
\* or starts; reads of the state and latency samples that record no failure
\* are no part of a run and do not end one
BreakerRun(b, op, latency_ms) ==
    IF cb_run.op = op /\ cb_run.latency_ms = latency_ms
    THEN [cb_run EXCEPT !.n = cb_run.n + 1]
    ELSE [op |-> op, latency_ms |-> latency_ms, n |-> 1,
          from_state |-> b.state, from_failures |-> b.failure_count]

InitBreaker ==
    /\ cb = CircuitBreaker
    /\ cb_now = 0
    /\ cb_last = BreakerLast("init", NoLatency, "closed")
    /\ cb_run = [op |-> "init", latency_ms |-> NoLatency, n |-> 0,
                 from_state |-> "closed", from_failures |-> 0]
    /\ cb_calls = 0

BreakerCall == cb_calls < MaxBreakerCalls /\ cb_calls' = cb_calls + 1

\* reading cb.state
ReadState ==
    /\ BreakerCall
    /\ cb' = state(cb, cb_now)
    /\ cb_last' = BreakerLast("state", NoLatency, cb'.state)
    /\ UNCHANGED <<cb_now, cb_run>>

\* cb.record_success()
RecordSuccess ==
    /\ BreakerCall
    /\ cb' = record_success(cb)
    /\ cb_last' = BreakerLast("record_success", NoLatency, cb'.state)
    /\ cb_run' = BreakerRun(cb, "record_success", NoLatency)
    /\ UNCHANGED cb_now

\* cb.record_failure() and cb.record_failure(latency_ms)
RecordFailure ==
    /\ BreakerCall
    /\ \E latency_ms \in {NoLatency} \cup Latencies :
          /\ cb' = record_failure(cb, latency_ms, cb_now)
          /\ cb_last' = BreakerLast("record_failure", latency_ms, cb'.state)
          /\ cb_run' = BreakerRun(cb, "record_failure", latency_ms)
    /\ UNCHANGED cb_now

\* cb.record_latency(latency_ms)
RecordLatency ==
    /\ BreakerCall
    /\ \E latency_ms \in Latencies :
          /\ cb' = record_latency(cb, latency_ms, cb_now)
          /\ cb_last' = BreakerLast("record_latency", latency_ms, cb'.state)
          /\ cb_run' = IF cb'.failure_count # cb.failure_count
                       THEN BreakerRun(cb, "record_failure", avg_latency(cb'.latency_history))
                       ELSE cb_run
    /\ UNCHANGED cb_now

\* POST /api/ml/circuit-breaker/toggle
ToggleCircuitBreaker ==
    /\ BreakerCall
    /\ cb' = toggle_circuit_breaker(cb, cb_now)
    /\ cb_last' = BreakerLast("toggle", NoLatency, cb'.state)
    /\ cb_run' = BreakerRun(cb, "toggle", NoLatency)
    /\ UNCHANGED cb_now

\* UnifiedMLRouter.disable_transformer(): _trigger_open() called directly
DisableTransformer ==
    /\ BreakerCall
    /\ cb' = trigger_open(cb)
    /\ cb_last' = BreakerLast("trigger_open", NoLatency, cb'.state)
    /\ cb_run' = BreakerRun(cb, "trigger_open", NoLatency)
    /\ UNCHANGED cb_now

\* cb.execute(func): func returns or raises, quickly or slowly
Execute ==
    /\ cb_calls < MaxExecuteCalls
    /\ cb_calls' = cb_calls + 1
    /\ \E outcome \in {"returns", "raises"}, latency_ms \in Latencies :
          LET r == execute(cb, outcome, latency_ms, cb_now)
          IN  /\ cb' = r.cb
              /\ cb_last' = BreakerLast("execute", latency_ms, r.result)
    /\ UNCHANGED <<cb_now, cb_run>>

\* time passes
BreakerTick ==
    /\ cb_now < MaxBreakerTicks * BreakerTickSeconds
    /\ cb_now' = cb_now + BreakerTickSeconds
    /\ UNCHANGED <<cb, cb_last, cb_run, cb_calls>>

DedupLast(op, ticket_id, text, is_duplicate, master_id) ==
    [op |-> op, ticket_id |-> ticket_id, text |-> text,
     is_duplicate |-> is_duplicate, master_id |-> master_id]

InitDedup ==
    /\ dd_tickets = <<>>
    /\ dd_masters = <<>>
    /\ dd_now = 0
    /\ dd_last = DedupLast("init", NoTicket, "storm", FALSE, NoMaster)
    /\ dd_counts = [adds |-> 0, others |-> 0, resubmitted |-> 0]

\* add_ticket(ticket_id, subject, description): a ticket under a new id,
\* with the text of the storm or another one, or the first ticket of the
\* storm submitted again under its id
AddTicket ==
    /\ dd_counts.adds < MaxDedupAdds
    /\ \E text \in Texts, again \in BOOLEAN :
          /\ text = "other" => ~again
          /\ (text = "other" \/ again) =>
                dd_counts.others + dd_counts.resubmitted < MaxUnusual
          /\ again => dd_counts.adds > 0
          /\ LET ticket_id == IF again THEN 1 ELSE dd_counts.adds + 1
                 r == add_ticket(dd_tickets, dd_masters, ticket_id, text, dd_now)
             IN  /\ dd_tickets' = r.tickets
                 /\ dd_masters' = r.masters
                 /\ dd_last' = DedupLast("add_ticket", ticket_id, text,
                                         r.is_duplicate, r.master_id)
          /\ dd_counts' = [adds |-> dd_counts.adds + 1,
                           others |-> dd_counts.others + (IF text = "other" THEN 1 ELSE 0),
                           resubmitted |-> dd_counts.resubmitted + (IF again THEN 1 ELSE 0)]
    /\ UNCHANGED dd_now

\* time passes
DedupTick ==
    /\ dd_now < MaxDedupTicks * DedupTickMinutes
    /\ dd_now' = dd_now + DedupTickMinutes
    /\ UNCHANGED <<dd_tickets, dd_masters, dd_last, dd_counts>>

BkLast(op, ticket_id, error, result) ==
    [op |-> op, ticket_id |-> ticket_id, error |-> error, result |-> result]

\* what a call did: "raised", or the value it returned
Outcome(raised, value) == IF raised THEN "raised" ELSE value

InitBroker ==
    /\ bk = AsyncBroker
    /\ bk_last = BkLast("init", NoTicket, NoError, "none")
    /\ bk_log = [published |-> <<>>, consumed |-> <<>>, calls |-> 0]

BrokerIds == 1..MaxBrokerIds

\* the error texts callers pass to fail_ticket: omitted, empty, a message
Errors == {NoError, "", "boom"}

BkCalled == [bk_log EXCEPT !.calls = @ + 1]

\* connect() that succeeds, and disconnect()
Connect ==
    /\ bk_log.calls < MaxBrokerSteps
    /\ \E up \in BOOLEAN :
          /\ bk' = [bk EXCEPT !.connected = up]
          /\ bk_last' = BkLast(IF up THEN "connect" ELSE "disconnect",
                                   NoTicket, NoError, "none")
    /\ bk_log' = BkCalled

\* publish_ticket({"ticket_id": ticket_id, ...}) under a new id
PublishTicket ==
    /\ bk_log.calls < MaxBrokerSteps
    /\ Len(bk_log.published) < MaxBrokerIds
    /\ LET ticket_id == Len(bk_log.published) + 1
           r == publish_ticket(bk, ticket_id)
       IN  /\ bk' = r.broker
           /\ bk_last' = BkLast("publish_ticket", ticket_id, NoError,
                                    Outcome(r.raised, "id"))
           /\ bk_log' = [BkCalled EXCEPT !.published =
                            IF bk.connected THEN Append(@, ticket_id) ELSE @]

\* consume_ticket(timeout) called by one of the consumers
ConsumeTicket ==
    /\ bk_log.calls < MaxBrokerSteps
    /\ \E consumer \in 1..MaxConsumers :
         LET r == consume_ticket(bk)
         IN  /\ bk' = r.broker
             /\ bk_last' = BkLast("consume_ticket", r.ticket, NoError,
                                      Outcome(r.raised, IF r.ticket = NoTicket
                                                        THEN "none" ELSE "ticket"))
             /\ bk_log' = [BkCalled EXCEPT !.consumed =
                              IF r.ticket = NoTicket THEN @
                              ELSE Append(@, [consumer |-> consumer, ticket_id |-> r.ticket])]

\* AsyncBroker.complete_ticket(ticket_id)
AckTicket ==
    /\ bk_log.calls < MaxBrokerSteps
    /\ \E ticket_id \in BrokerIds :
         LET r == ack_ticket(bk, ticket_id)
         IN  /\ bk' = r.broker
             /\ bk_last' = BkLast("complete_ticket", ticket_id, NoError,
                                      Outcome(r.raised, IF r.ok THEN "true" ELSE "false"))
    /\ bk_log' = BkCalled

\* fail_ticket(ticket_id), fail_ticket(ticket_id, error)
FailTicket ==
    /\ bk_log.calls < MaxBrokerSteps
    /\ \E ticket_id \in BrokerIds, error \in Errors :
         LET r == fail_ticket(bk, ticket_id, error)
         IN  /\ bk' = r.broker
             /\ bk_last' = BkLast("fail_ticket", ticket_id, error,
                                      Outcome(r.raised, IF r.ok THEN "true" ELSE "false"))
    /\ bk_log' = BkCalled

\* an hour passes without a publish_ticket: Redis deletes tickets:processing
\* when the time to live that EXPIRE gave it runs out
ProcessingExpires ==
    /\ bk.processing.ttl
    /\ bk' = [bk EXCEPT !.processing = NoKey]
    /\ bk_last' = BkLast("expire", NoTicket, NoError, "none")
    /\ UNCHANGED bk_log

----------------------------------------------------------------------------
(* The worker (src/worker/worker.py) over the ML router (src/ml/router.py) *)

\* what the classifiers make of a text, in hundredths: the storm is urgent,
\* the other text routine
UrgencyOfText(text) == IF text = "storm" THEN 90 ELSE 20

CategoryOfText(text) == IF text = "storm" THEN "technical" ELSE "billing"

\* the text of the ticket published under ticket_id: the first ticket carries
\* the other text, all those after it the text of the storm
TextOf(ticket_id) == IF ticket_id = 1 THEN "other" ELSE "storm"

\* what becomes of a webhook call: delivered, or failed (an exception inside
\* _send_slack / _send_discord, which they catch, or a response that is no success)
Notifications == {"sent", "failed"}

\* what the transformer does when it is called: it answers quickly, answers
\* slowly, or raises
TransformerOutcomes == {"fast", "slow", "raise"}

LatencyOf(outcome) == IF outcome = "slow" THEN 600 ELSE 100

\* classify that asks the transformer whatever the breaker says
classify_ignoring_breaker(b, use_transformer, outcome, clock) ==
    LET read == state(b, clock)
        timed == record_latency(read, LatencyOf(outcome), clock)
    IN  IF use_transformer
        THEN IF outcome = "raise"
             THEN [cb |-> record_failure(read, NoLatency, clock),
                   use_transformer |-> use_transformer,
                   model_used |-> "baseline_fallback"]
             ELSE [cb |-> record_success(timed),
                   use_transformer |-> ~(LatencyOf(outcome) > latency_threshold_ms),
                   model_used |-> "transformer"]
        ELSE [cb |-> read, use_transformer |-> use_transformer, model_used |-> "baseline"]

\* UnifiedMLRouter.classify up to the deduplication step: the breaker and
\* _use_transformer afterwards and the model used
classify(b, use_transformer, outcome, clock) ==
    LET read == state(b, clock)
        transformer_available == read.state # "open" /\ is_available(read, clock)
        timed == record_latency(read, LatencyOf(outcome), clock)
    IN  IF use_transformer /\ transformer_available
        THEN IF outcome = "raise"
             THEN [cb |-> record_failure(read, NoLatency, clock),
                   use_transformer |-> use_transformer,
                   model_used |-> "baseline_fallback"]
             ELSE [cb |-> record_success(timed),
                   use_transformer |-> ~(LatencyOf(outcome) > latency_threshold_ms),
                   model_used |-> "transformer"]
        ELSE [cb |-> read, use_transformer |-> use_transformer, model_used |-> "baseline"]

\* process_ticket(ticket_data): classify, deduplicate, alert, route.  When the
\* embedding service raises, the exception leaves add_ticket, classify and
\* process_ticket before the deduplicator, the notifier or the registry is
\* touched.
process_ticket(w, ticket_id, outcome, embedding_raises, notification) ==
    LET text == TextOf(ticket_id)
        c == classify(cb, w.use_transformer, outcome, cb_now)
        d == add_ticket(dd_tickets, dd_masters, ticket_id, text, dd_now)
        suppressed == d.is_duplicate /\ d.master_id # NoMaster
        alerted == ~suppressed /\ UrgencyOfText(text) > HIGH_URGENCY_THRESHOLD
        r == route_ticket_with_preemption(
                 agents,
                 TicketRequest(ticket_id, CategoryOfText(text), UrgencyOfText(text),
                               <<CategoryOfText(text)>>),
                 now, assignment_history, preemption_history)
    IN  IF embedding_raises
        THEN [raised |-> TRUE, cb |-> c.cb, use_transformer |-> c.use_transformer,
              tickets |-> dd_tickets, masters |-> dd_masters, alerts |-> w.alerts,
              suppressed |-> w.suppressed,
              agents |-> agents, assignment_history |-> assignment_history,
              preemption_history |-> preemption_history]
        ELSE [raised |-> FALSE, cb |-> c.cb, use_transformer |-> c.use_transformer,
              tickets |-> d.tickets, masters |-> d.masters,
              alerts |-> IF alerted
                         THEN Append(w.alerts, [ticket_id |-> ticket_id,
                                                webhook_sent |-> notification = "sent"])
                         ELSE w.alerts,
              suppressed |-> IF suppressed THEN w.suppressed \cup {ticket_id}
                             ELSE w.suppressed,
              agents |-> r.agents, assignment_history |-> r.assignment_history,
              preemption_history |-> r.preemption_history]

\* the worker before the first iteration of main's loop; connected is the
\* _connected of the broker object in the worker's process
Worker ==
    [pc |-> "consume", ticket |-> NoTicket, connected |-> FALSE, use_transformer |-> TRUE,
     alerts |-> <<>>, suppressed |-> {}, raised |-> {}, acked |-> {}, hours |-> 0]

\* the Redis keys as the worker's broker object reaches them, and as the
\* app's broker object holds them after a call of the worker's
InWorker(b) == [b EXCEPT !.connected = wk.connected]

InApp(b) == [b EXCEPT !.connected = bk.connected]

\* main() up to its loop, beside an app that has connected its broker: the
\* sample agents registered, everything else just constructed.  main() does
\* not connect the broker: its broker is connected when the process that runs
\* main() has called connect(), as src/app.py does at startup, and not otherwise.
InitWorker ==
    /\ agents = RegisterAll([i \in 1..MaxAgents |-> MaxCapacity], MaxAgents)
    /\ now = 0
    /\ assignment_history = <<>>
    /\ preemption_history = <<>>
    /\ last = Last("init", NoAgent, NoTicket, 0, FALSE, NoTicket)
    /\ calls = 0
    /\ InitQueue
    /\ InitBreaker
    /\ InitDedup
    /\ bk = [AsyncBroker EXCEPT !.connected = TRUE]
    /\ bk_last = BkLast("init", NoTicket, NoError, "none")
    /\ bk_log = [published |-> <<>>, consumed |-> <<>>, calls |-> 0]
    /\ wk \in {[Worker EXCEPT !.connected = c] : c \in BOOLEAN}
    /\ pq = ProcessQueue

workerFrame == <<queueVars, last, calls, cb_last, cb_run, cb_calls, dd_last, dd_counts>>

\* the app's submit_ticket: publish_ticket on the shared Redis keys, its
\* exception swallowed
AppPublishUpTo(n) ==
    /\ Len(bk_log.published) < n
    /\ Len(bk.queue) < MaxBacklog
    /\ LET ticket_id == Len(bk_log.published) + 1
           r == publish_ticket(bk, ticket_id)
       IN  /\ bk' = r.broker
           /\ bk_last' = BkLast("publish_ticket", ticket_id, NoError,
                                Outcome(r.raised, "true"))
           /\ bk_log' = [bk_log EXCEPT !.published = Append(@, ticket_id)]
    /\ UNCHANGED <<registryVars, breakerVars, dedupVars, workerVars, queueVars>>

\* the head of main's loop: consume_ticket(timeout=5).  On None the loop
\* continues; an exception goes to the except branch, which prints and sleeps.
WorkerConsume ==
    /\ wk.pc = "consume"
    /\ LET r == consume_ticket(InWorker(bk))
       IN  /\ bk' = InApp(r.broker)
           /\ bk_last' = BkLast("consume_ticket", r.ticket, NoError,
                                Outcome(r.raised, IF r.ticket = NoTicket THEN "none" ELSE "ticket"))
           /\ IF ~r.raised /\ r.ticket # NoTicket
              THEN /\ wk' = [wk EXCEPT !.pc = "process", !.ticket = r.ticket]
                   /\ bk_log' = [bk_log EXCEPT !.consumed =
                                     Append(@, [consumer |-> 1, ticket_id |-> r.ticket])]
              ELSE UNCHANGED <<wk, bk_log>>
    /\ UNCHANGED <<registryVars, breakerVars, dedupVars, queueVars, pq>>

\* result = await process_ticket(ticket_data): on an exception the except
\* branch prints and sleeps, and the loop goes on to the next ticket
WorkerProcessAmong(outcomes, embeddings, notifications) ==
    /\ wk.pc = "process"
    /\ \E outcome \in outcomes, embedding_raises \in embeddings,
          notification \in notifications :
        LET r == process_ticket(wk, wk.ticket, outcome, embedding_raises, notification)
        IN  /\ cb' = r.cb
            /\ dd_tickets' = r.tickets
            /\ dd_masters' = r.masters
            /\ agents' = r.agents
            /\ assignment_history' = r.assignment_history
            /\ preemption_history' = r.preemption_history
            /\ wk' = [wk EXCEPT !.pc = IF r.raised THEN "consume" ELSE "ack",
                                !.ticket = IF r.raised THEN NoTicket ELSE @,
                                !.use_transformer = r.use_transformer,
                                !.alerts = r.alerts,
                                !.suppressed = r.suppressed,
                                !.raised = IF r.raised THEN @ \cup {wk.ticket} ELSE @]
    /\ UNCHANGED <<now, cb_now, dd_now, brokerVars, workerFrame, pq>>

\* async_broker.complete_ticket(ticket.ticket_id); an exception goes to the
\* except branch
WorkerAck ==
    /\ wk.pc = "ack"
    /\ LET r == ack_ticket(InWorker(bk), wk.ticket)
       IN  /\ bk' = InApp(r.broker)
           /\ bk_last' = BkLast("complete_ticket", wk.ticket, NoError,
                                Outcome(r.raised, "true"))
           /\ wk' = [wk EXCEPT !.pc = "consume", !.ticket = NoTicket,
                               !.acked = IF r.raised THEN @ ELSE @ \cup {wk.ticket}]
    /\ UNCHANGED <<registryVars, breakerVars, dedupVars, bk_log, queueVars, pq>>

\* an hour passes on every clock without a publish_ticket, and Redis deletes
\* tickets:processing
HourPasses ==
    /\ wk.hours < MaxWorkerHours
    /\ ProcessingExpires
    /\ wk' = [wk EXCEPT !.hours = @ + 1]
    /\ now' = now + 3600
    /\ cb_now' = cb_now + 3600
    /\ dd_now' = dd_now + 60
    /\ UNCHANGED <<agents, assignment_history, preemption_history, cb, dd_tickets,
                   dd_masters, workerFrame, pq>>

Init ==
    InitRegistry /\ InitQueue /\ InitBreaker /\ InitDedup /\ InitBroker /\ wk = Worker
    /\ pq = ProcessQueue

NextRegistry ==
    \/ UpdateAgentStatus /\ UNCHANGED nonRegistryVars
    \/ Route /\ UNCHANGED nonRegistryVars
    \/ CompleteTicket /\ UNCHANGED nonRegistryVars
    \/ ReleaseTicketById /\ UNCHANGED nonRegistryVars
    \/ Tick /\ UNCHANGED nonRegistryVars

SpecRegistry == Init /\ [][NextRegistry]_vars

\* The registry over the mixed ticket ids, in runs of at most MaxMixedCalls
\* calls: enough for two assignments and the route call that meets them.
NextRegistryMixed ==
    \/ calls < MaxMixedCalls /\ UpdateAgentStatus /\ UNCHANGED nonRegistryVars
    \/ calls < MaxMixedCalls /\ RouteAmong(MixedTicketIds) /\ UNCHANGED nonRegistryVars
    \/ calls < MaxMixedCalls /\ CompleteTicketAmong(MixedTicketIds) /\ UNCHANGED nonRegistryVars
    \/ calls < MaxMixedCalls /\ ReleaseTicketById /\ UNCHANGED nonRegistryVars
    \/ Tick /\ UNCHANGED nonRegistryVars

SpecRegistryMixed == Init /\ [][NextRegistryMixed]_vars

\* The registry while every Active ticket is eventually completed: status
\* updates and route calls are made at will and at most MaxCalls times, and
\* the completion of an Active ticket is never put off for ever.
NextRegistryServed ==
    \/ UpdateAgentStatus /\ UNCHANGED nonRegistryVars
    \/ RouteAmong(ServedTicketIds) /\ UNCHANGED nonRegistryVars
    \/ CompleteActive /\ UNCHANGED nonRegistryVars
    \/ Tick /\ UNCHANGED nonRegistryVars

SpecRegistryServed ==
    Init /\ [][NextRegistryServed]_vars /\ WF_vars(CompleteActive /\ UNCHANGED nonRegistryVars)

NextQueue ==
    \/ Enqueue /\ UNCHANGED nonQueueVars
    \/ Dequeue /\ UNCHANGED nonQueueVars
    \/ UpdatePriority /\ UNCHANGED nonQueueVars
    \/ Clear /\ UNCHANGED nonQueueVars

\* a registry just constructed: no agent registered yet
RegistryIdle ==
    /\ agents = <<>>
    /\ now = 0
    /\ assignment_history = <<>>
    /\ preemption_history = <<>>
    /\ last = Last("init", NoAgent, NoTicket, 0, FALSE, NoTicket)
    /\ calls = 0

\* the queue, the breaker and the deduplicator just constructed, beside a
\* registry with no agent registered yet
InitBesideIdleRegistry ==
    RegistryIdle /\ InitQueue /\ InitBreaker /\ InitDedup /\ InitBroker /\ wk = Worker
    /\ pq = ProcessQueue

SpecQueue == InitBesideIdleRegistry /\ [][NextQueue]_vars

NextBreaker ==
    \/ ReadState /\ UNCHANGED nonBreakerVars
    \/ RecordSuccess /\ UNCHANGED nonBreakerVars
    \/ RecordFailure /\ UNCHANGED nonBreakerVars
    \/ RecordLatency /\ UNCHANGED nonBreakerVars
    \/ ToggleCircuitBreaker /\ UNCHANGED nonBreakerVars
    \/ DisableTransformer /\ UNCHANGED nonBreakerVars
    \/ BreakerTick /\ UNCHANGED nonBreakerVars

SpecBreaker == InitBesideIdleRegistry /\ [][NextBreaker]_vars

\* the breaker used through execute only
NextExecute ==
    \/ Execute /\ UNCHANGED nonBreakerVars
    \/ BreakerTick /\ UNCHANGED nonBreakerVars

SpecExecute == InitBesideIdleRegistry /\ [][NextExecute]_vars

\* ml_router.classify(...) with deduplication disabled: the transformer, when
\* it is asked, answers quickly, answers slowly, or raises; the call is logged
\* with the latency the transformer took (none when it raises) and the model
\* that produced the result
Classify ==
    /\ cb_calls < MaxClassifyCalls
    /\ cb_calls' = cb_calls + 1
    /\ \E outcome \in TransformerOutcomes :
          LET r == classify(cb, wk.use_transformer, outcome, cb_now)
          IN  /\ cb' = r.cb
              /\ wk' = [wk EXCEPT !.use_transformer = r.use_transformer]
              /\ cb_last' = BreakerLast("classify",
                                        IF outcome = "raise" THEN NoLatency
                                        ELSE LatencyOf(outcome),
                                        r.model_used)
    /\ UNCHANGED <<cb_now, cb_run>>

\* ml_router.enable_transformer(): _use_transformer set, the circuits reset
EnableTransformer ==
    /\ cb_calls < MaxClassifyCalls
    /\ cb_calls' = cb_calls + 1
    /\ cb' = reset(cb)
    /\ wk' = [wk EXCEPT !.use_transformer = TRUE]
    /\ cb_last' = BreakerLast("enable_transformer", NoLatency, cb'.state)
    /\ UNCHANGED <<cb_now, cb_run>>

----------------------------------------------------------------------------
(* process_queue, start_worker and stop_worker of src/queue/async_broker.py *)

processQueueFrame == <<registryVars, queueVars, breakerVars, dedupVars, wk>>

Threads == 1..Len(pq.threads)

\* process_queue beside an app that has connected the broker
InitProcessQueue ==
    /\ RegistryIdle /\ InitQueue /\ InitBreaker /\ InitDedup
    /\ bk = [AsyncBroker EXCEPT !.connected = TRUE]
    /\ bk_last = BkLast("init", NoTicket, NoError, "none")
    /\ bk_log = [published |-> <<>>, consumed |-> <<>>, calls |-> 0]
    /\ wk = Worker
    /\ pq = ProcessQueue

\* register_worker(worker)
RegisterWorker ==
    /\ pq.workers < MaxRegistered
    /\ pq' = [pq EXCEPT !.workers = @ + 1]
    /\ UNCHANGED <<brokerVars, processQueueFrame>>

\* start_worker() while _running is not set: a thread is started, which has
\* not run yet (with _running set the call does nothing).  No start_worker is
\* called after stop_worker.
StartWorker ==
    /\ Len(pq.threads) < MaxStarts
    /\ ~pq.stopped
    /\ ~pq.running
    /\ pq' = [pq EXCEPT !.threads = Append(@, [pc |-> "started", ticket |-> NoTicket])]
    /\ UNCHANGED <<brokerVars, processQueueFrame>>

\* stop_worker()
StopWorker ==
    /\ ~pq.stopped
    /\ pq' = [pq EXCEPT !.running = FALSE, !.stopped = TRUE]
    /\ UNCHANGED <<brokerVars, processQueueFrame>>

\* thread i enters process_queue: self._running = True
ProcessQueueBegins(i) ==
    /\ pq.threads[i].pc = "started"
    /\ pq' = [pq EXCEPT !.running = TRUE, !.threads[i].pc = "head"]
    /\ UNCHANGED <<brokerVars, processQueueFrame>>

\* thread i at `while self._running`
LoopHead(i) ==
    /\ pq.threads[i].pc = "head"
    /\ pq' = [pq EXCEPT !.threads[i].pc = IF pq.running THEN "consume" ELSE "exited"]
    /\ UNCHANGED <<brokerVars, processQueueFrame>>

\* thread i calls consume_ticket(timeout=1): with a ticket it goes on to the
\* registered workers; on None and on an exception it sleeps and goes back to
\* the head of the loop
LoopConsume(i) ==
    /\ pq.threads[i].pc = "consume"
    /\ LET r == consume_ticket(bk)
           got == ~r.raised /\ r.ticket # NoTicket
       IN  /\ bk' = r.broker
           /\ bk_last' = BkLast("consume_ticket", r.ticket, NoError,
                                Outcome(r.raised, IF r.ticket = NoTicket THEN "none" ELSE "ticket"))
           /\ bk_log' = IF got
                        THEN [bk_log EXCEPT !.consumed =
                                  Append(@, [consumer |-> i, ticket_id |-> r.ticket])]
                        ELSE bk_log
           /\ pq' = IF got
                    THEN [pq EXCEPT !.threads[i] = [pc |-> "work", ticket |-> r.ticket],
                                    !.consumed = @ \cup {r.ticket}]
                    ELSE [pq EXCEPT !.threads[i].pc = "head"]
    /\ UNCHANGED processQueueFrame

\* what `for worker in self._workers` does with ticket_id: every registered
\* worker is awaited and the ticket completed; when the worker or
\* complete_ticket raises, the ticket is failed; an exception of fail_ticket
\* leaves the loop for the outer except branch
RECURSIVE run_workers(_, _, _, _)
run_workers(b, n, ticket_id, worker_raises) ==
    IF n = 0 THEN b
    ELSE LET acked == ack_ticket(b, ticket_id)
             failed == fail_ticket(IF worker_raises THEN b ELSE acked.broker,
                                   ticket_id, "boom")
         IN  IF ~worker_raises /\ ~acked.raised
             THEN run_workers(acked.broker, n - 1, ticket_id, worker_raises)
             ELSE IF failed.raised THEN failed.broker
             ELSE run_workers(failed.broker, n - 1, ticket_id, worker_raises)

\* thread i runs the registered workers on the ticket it holds and goes back
\* to the head of the loop
LoopWork(i) ==
    /\ pq.threads[i].pc = "work"
    /\ \E worker_raises \in BOOLEAN :
          /\ bk' = run_workers(bk, pq.workers, pq.threads[i].ticket, worker_raises)
          /\ bk_last' = BkLast("workers", pq.threads[i].ticket, NoError,
                               IF worker_raises THEN "raised" ELSE "returned")
    /\ pq' = [pq EXCEPT !.threads[i] = [pc |-> "head", ticket |-> NoTicket]]
    /\ UNCHANGED <<bk_log, processQueueFrame>>

\* a step of thread i
ThreadStep(i) ==
    ProcessQueueBegins(i) \/ LoopHead(i) \/ LoopConsume(i) \/ LoopWork(i)

NextProcessQueue ==
    \/ RegisterWorker
    \/ StartWorker
    \/ StopWorker
    \/ \E i \in Threads : ProcessQueueBegins(i)
    \/ \E i \in Threads : LoopHead(i)
    \/ \E i \in Threads : LoopConsume(i)
    \/ \E i \in Threads : LoopWork(i)
    \/ AppPublishUpTo(MaxQueueTickets)
    \/ ProcessingExpires /\ UNCHANGED nonBrokerVars

SpecProcessQueue == InitProcessQueue /\ [][NextProcessQueue]_vars

\* the scheduler lets every started thread run
SpecProcessQueueFair ==
    /\ InitProcessQueue
    /\ [][NextProcessQueue]_vars
    /\ \A i \in 1..MaxStarts : WF_vars(i \in Threads /\ ThreadStep(i))

\* the ML router over its transformer circuit
NextClassify ==
    \/ Classify /\ UNCHANGED <<registryVars, queueVars, dedupVars, brokerVars, pq>>
    \/ EnableTransformer /\ UNCHANGED <<registryVars, queueVars, dedupVars, brokerVars, pq>>
    \/ BreakerTick /\ UNCHANGED nonBreakerVars

SpecClassify == InitBesideIdleRegistry /\ [][NextClassify]_vars

NextDedup ==
    \/ AddTicket /\ UNCHANGED nonDedupVars
    \/ DedupTick /\ UNCHANGED nonDedupVars

SpecDedup == InitBesideIdleRegistry /\ [][NextDedup]_vars

NextBroker ==
    \/ Connect /\ UNCHANGED nonBrokerVars
    \/ PublishTicket /\ UNCHANGED nonBrokerVars
    \/ ConsumeTicket /\ UNCHANGED nonBrokerVars
    \/ AckTicket /\ UNCHANGED nonBrokerVars
    \/ FailTicket /\ UNCHANGED nonBrokerVars
    \/ ProcessingExpires /\ UNCHANGED nonBrokerVars

SpecBroker == InitBesideIdleRegistry /\ [][NextBroker]_vars

\* the worker beside an app that publishes a few tickets, the transformer and
\* the embedding service answering or failing
NextWorker ==
    \/ AppPublishUpTo(MaxWorkerTickets)
    \/ WorkerConsume
    \/ WorkerProcessAmong(TransformerOutcomes, BOOLEAN, Notifications)
    \/ WorkerAck
    \/ HourPasses

SpecWorker == InitWorker /\ [][NextWorker]_vars

\* the worker beside an app that publishes a storm, both services healthy
NextWorkerStorm ==
    \/ AppPublishUpTo(MaxStormTickets)
    \/ WorkerConsume
    \/ WorkerProcessAmong({"fast"}, {FALSE}, {"sent"})
    \/ WorkerAck
    \/ HourPasses

SpecWorkerStorm == InitWorker /\ [][NextWorkerStorm]_vars

----------------------------------------------------------------------------
(* Claims about the agent registry *)

NonCompleted(a) == {j \in 1..Len(a.assigned_tickets) : a.assigned_tickets[j].status # "completed"}

\* C1, as claimed: every agent's current_load equals the number of entries of
\* its assigned_tickets that are not Completed (Active plus Paused).
C1_LoadEqualsNonCompleted ==
    \A i \in AgentPositions :
        agents[i].current_load = Cardinality(NonCompleted(agents[i]))

\* C2, as claimed: every agent's current_load is at least 0 and at most its
\* capacity in every reachable state.
C2_LoadWithinCapacity ==
    \A i \in AgentPositions :
        0 <= agents[i].current_load /\ agents[i].current_load <= agents[i].capacity

\* C3, as claimed: a ticket id is in the assigned_tickets of at most one agent.
C3_TicketOwnedByAtMostOneAgent ==
    \A ticket_id \in TicketIds :
        Cardinality({i \in AgentPositions : HasKey(agents[i].assigned_tickets, ticket_id)}) <= 1

\* C4, as claimed: a route call made while some agent has current_load below
\* its capacity returns an agent, and that agent's load has increased.
C4_RouteWheneverLoadBelowCapacity ==
    [][(last'.op = "route"
        /\ \E i \in AgentPositions : agents[i].current_load < agents[i].capacity)
       => /\ last'.agent_id # NoAgent
          /\ agents'[last'.agent_id].current_load > agents[last'.agent_id].current_load]_vars

\* C4, amended: a route call made while some agent is Available with
\* current_load below its capacity returns an agent, and that agent's load is
\* one more than the auto-complete sweep that opens the call left it.
C4_RouteWheneverAgentAvailable ==
    [][(last'.op = "route"
        /\ \E i \in AgentPositions : agents[i].status = "available"
                                     /\ agents[i].current_load < agents[i].capacity)
       => /\ last'.agent_id # NoAgent
          /\ agents'[last'.agent_id].current_load
                = auto_complete_expired(agents, now)[last'.agent_id].current_load + 1]_vars

\* C4 witness: a route call has assigned its ticket without preempting, to an
\* agent that holds it as Active.
C4_Witness ==
    /\ last.op = "route" /\ last.agent_id # NoAgent /\ last.preempted = NoTicket
    /\ HasKey(agents[last.agent_id].assigned_tickets, last.ticket_id)
    /\ agents[last.agent_id].current_load > 0

\* C5: a step that moves an Active ticket to Paused is a route call whose
\* incoming urgency is strictly greater than that ticket's urgency, and the
\* ticket is the preempted ticket the call returns; and a ticket that route
\* returns as preempted was Active on the returned agent with an urgency
\* strictly less than the incoming one.
C5_PreemptionOnlyLowerUrgency ==
    [][/\ \A i \in AgentPositions : \A t \in Assigned(agents[i]) :
            (/\ t.status = "active"
             /\ HasKey(agents'[i].assigned_tickets, t.ticket_id)
             /\ Get(agents'[i].assigned_tickets, t.ticket_id).status = "paused")
            => /\ last'.op = "route"
               /\ last'.agent_id = i
               /\ last'.preempted = t.ticket_id
               /\ t.urgency < last'.urgency
       /\ (last'.op = "route" /\ last'.preempted # NoTicket)
            => \E t \in Assigned(auto_complete_expired(agents, now)[last'.agent_id]) :
                  /\ t.ticket_id = last'.preempted
                  /\ t.status = "active"
                  /\ t.urgency < last'.urgency]_vars

\* C5 witness: a route call has preempted a ticket, which is Paused on the
\* agent the call returned.
C5_Witness ==
    /\ last.op = "route" /\ last.preempted # NoTicket
    /\ \E t \in Assigned(agents[last.agent_id]) :
          t.ticket_id = last.preempted /\ t.status = "paused"

\* C6, as claimed: a complete_ticket call on an agent that holds a Paused
\* ticket resumes the highest-urgency Paused ticket of that agent, and no
\* other agent changes.
C6_CompleteAlwaysResumesHighestPaused ==
    [][(/\ last'.op = "complete_ticket"
        /\ last'.agent_id \in AgentPositions
        /\ PausedTickets(agents[last'.agent_id]) # <<>>)
       => /\ \E p \in Assigned(agents[last'.agent_id]) :
                /\ p.status = "paused"
                /\ \A q \in Assigned(agents[last'.agent_id]) :
                       q.status = "paused" => q.urgency <= p.urgency
                /\ HasKey(agents'[last'.agent_id].assigned_tickets, p.ticket_id)
                /\ Get(agents'[last'.agent_id].assigned_tickets, p.ticket_id).status = "active"
          /\ \A j \in AgentPositions : j # last'.agent_id => agents'[j] = agents[j]]_vars

\* the Paused tickets of an agent other than ticket_id
PausedBut(a, ticket_id) ==
    {t \in Assigned(a) : t.status = "paused" /\ t.ticket_id # ticket_id}

\* C6, amended: a complete_ticket call that returns true on an agent that,
\* the completed ticket apart, holds a Paused ticket resumes one of the
\* highest urgency among those Paused tickets, the others stay Paused, and no
\* other agent changes.
C6_CompleteResumesHighestRemainingPaused ==
    [][(/\ last'.op = "complete_ticket"
        /\ last'.ok
        /\ PausedBut(agents[last'.agent_id], last'.ticket_id) # {})
       => /\ \E p \in PausedBut(agents[last'.agent_id], last'.ticket_id) :
                /\ \A q \in PausedBut(agents[last'.agent_id], last'.ticket_id) :
                       /\ q.urgency <= p.urgency
                       /\ HasKey(agents'[last'.agent_id].assigned_tickets, q.ticket_id)
                       /\ q # p => Get(agents'[last'.agent_id].assigned_tickets, q.ticket_id) = q
                /\ Get(agents'[last'.agent_id].assigned_tickets, p.ticket_id).status = "active"
          /\ \A j \in AgentPositions : j # last'.agent_id => agents'[j] = agents[j]]_vars

\* C6 witness: a complete_ticket call has returned true on an agent where a
\* ticket that was once preempted is Active again while another is still Paused.
C6_Witness ==
    /\ last.op = "complete_ticket" /\ last.ok
    /\ \E t, q \in Assigned(agents[last.agent_id]) :
          /\ t.status = "active" /\ q.status = "paused" /\ q.urgency < t.urgency
          /\ \E k \in 1..Len(preemption_history) :
                /\ preemption_history[k].paused_ticket_id = t.ticket_id
                /\ preemption_history[k].agent_id = last.agent_id

\* C7, as claimed: an agent whose status is Offline holds no Active ticket.
C7_OfflineHoldsNoActive ==
    \A i \in AgentPositions :
        agents[i].status = "offline" => ActiveTickets(agents[i]) = <<>>

----------------------------------------------------------------------------
(* Claims about the priority queue *)

\* (a.priority, a.timestamp) <= (b.priority, b.timestamp), the stored
\* priority being the negated one
KeyLeq(a, b) ==
    a.priority < b.priority \/ (a.priority = b.priority /\ a.timestamp <= b.timestamp)

Count(h, x) == Cardinality({i \in 1..Len(h) : h[i] = x})

\* the tickets successive dequeues return from heap h, first to last
RECURSIVE Drain(_)
Drain(h) == IF h = <<>> THEN <<>> ELSE <<heappop(h).item>> \o Drain(heappop(h).heap)

\* C8, as stated: over any sequence of enqueue and dequeue the tickets
\* dequeued so far are non-decreasing in (-priority, arrival key).
C8_DequeuedSequenceNonDecreasing ==
    \A i, j \in 1..Len(dequeued) : i < j => KeyLeq(dequeued[i], dequeued[j])

\* C8, amended: a dequeue on a non-empty queue returns an entry of the heap
\* that no other entry precedes in (-priority, timestamp) and takes exactly
\* that entry out; a dequeue that directly follows another dequeue returns a
\* ticket that does not precede the one before; a dequeue on an empty queue
\* returns nothing and changes neither the heap nor the index.
C8_DequeueReturnsMinimum ==
    [][qlast'.op = "dequeue" /\ qcalls' # qcalls =>
         IF heap = <<>>
         THEN ~qlast'.ok /\ heap' = heap /\ ticket_index' = ticket_index
         ELSE /\ qlast'.ok
              /\ \E i \in 1..Len(heap) : heap[i] = qlast'.ticket
              /\ \A i \in 1..Len(heap) : KeyLeq(qlast'.ticket, heap[i])
              /\ Len(heap') = Len(heap) - 1
              /\ \A i \in 1..Len(heap) :
                    Count(heap', heap[i]) =
                        Count(heap, heap[i]) - (IF heap[i] = qlast'.ticket THEN 1 ELSE 0)
              /\ (qlast.op = "dequeue" /\ qlast.ok) => KeyLeq(qlast.ticket, qlast'.ticket)
    ]_vars

\* three tickets were enqueued and two dequeues have returned the two of
\* equal priority, the older first, leaving the one of lower priority
C8_Witness ==
    /\ qlast.op = "dequeue" /\ qlast.ok
    /\ Len(dequeued) = 2 /\ qcalls = 5 /\ Len(heap) = 1
    /\ dequeued[1].priority = dequeued[2].priority
    /\ dequeued[1].timestamp < dequeued[2].timestamp
    /\ dequeued[1].ticket_id # dequeued[2].ticket_id
    /\ heap[1].priority > dequeued[2].priority

\* C9: the index and the heap hold the same entries: size() = |ticket_index|,
\* no ticket id is in the heap twice, and no indexed ticket is missing from
\* the heap.
C9_IndexMatchesHeap ==
    /\ size(heap) = Len(ticket_index)
    /\ {heap[i] : i \in 1..Len(heap)} = {ticket_index[i] : i \in 1..Len(ticket_index)}
    /\ \A i, j \in 1..Len(heap) : heap[i].ticket_id = heap[j].ticket_id => i = j

\* C10: update_priority(id, p') on a ticket queued once, in a queue whose
\* index and heap agree, followed by successive dequeues emits id exactly
\* once, with priority p' and the timestamp it had, after every ticket of
\* higher priority and before every ticket of lower priority.
C10_UpdatedTicketEmittedOnceInOrder ==
    [][(qlast'.op = "update_priority" /\ qlast'.ok /\ qcalls' # qcalls
        /\ C9_IndexMatchesHeap) =>
         LET d == Drain(heap')
             id == qlast'.ticket.ticket_id
         IN  \E k \in 1..Len(d) :
                /\ d[k].ticket_id = id
                /\ d[k].priority = 0 - qlast'.priority
                /\ d[k].timestamp = qlast'.ticket.timestamp
                /\ \A j \in 1..Len(d) : j # k => d[j].ticket_id # id
                /\ \A j \in 1..Len(d) : j < k => d[j].priority <= d[k].priority
                /\ \A j \in 1..Len(d) : j > k => d[j].priority >= d[k].priority
    ]_vars

----------------------------------------------------------------------------
(* Claims about the circuit breaker *)

\* sum(history) / len(history) > latency_threshold_ms, without the division
MeanExceedsThreshold(history) ==
    SumSeq(history, 1) > latency_threshold_ms * Len(history)

\* C11: a run of record_failure() calls without a latency argument that
\* starts on a Closed breaker leaves it Open once the run is
\* failure_threshold calls long, and leaves it Closed while the run is
\* shorter and the failure counter was 0 at its start; record_success on a
\* Closed breaker sets the failure counter to 0 and leaves it Closed.
C11_FailuresOpenAtThreshold ==
    [][/\ (cb_last'.op = "record_failure" /\ cb_calls' # cb_calls
            /\ cb_run'.op = "record_failure" /\ cb_run'.latency_ms = NoLatency
            /\ cb_run'.from_state = "closed") =>
              /\ cb_run'.n >= failure_threshold => cb'.state = "open"
              /\ (cb_run'.n < failure_threshold /\ cb_run'.from_failures = 0) =>
                    cb'.state = "closed" /\ cb'.failure_count = cb_run'.n
       /\ (cb_last'.op = "record_success" /\ cb_calls' # cb_calls /\ cb.state = "closed") =>
              cb'.state = "closed" /\ cb'.failure_count = 0
    ]_vars

\* the fifth of five record_failure() calls on a breaker that was Closed
\* with no failure counted has opened it
C11_Witness ==
    /\ cb_run.op = "record_failure" /\ cb_run.latency_ms = NoLatency
    /\ cb_run.from_state = "closed" /\ cb_run.from_failures = 0
    /\ cb_run.n = failure_threshold
    /\ cb.state = "open" /\ cb.failure_count = failure_threshold

\* C12: on a Closed breaker with an empty latency ring one
\* record_latency(ms) with ms over the latency threshold leaves the breaker
\* not Closed.
C12_SingleSlowLatencyOpens ==
    [][(cb_last'.op = "record_latency" /\ cb_calls' # cb_calls
        /\ cb_last'.latency_ms > latency_threshold_ms
        /\ cb.state = "closed" /\ cb.latency_history = <<>>) =>
          cb'.state # "closed"
    ]_vars

\* C13: a record_latency call after which the ring holds at least ten
\* samples whose mean exceeds the latency threshold leaves the breaker Open.
C13_SlowMeanOpens ==
    [][(cb_last'.op = "record_latency" /\ cb_calls' # cb_calls
        /\ Len(cb'.latency_history) >= MinLatencySamples
        /\ MeanExceedsThreshold(cb'.latency_history)) =>
          cb'.state = "open"
    ]_vars

\* ten samples recorded on a breaker that was Closed, the tenth under the
\* threshold, the mean over it: the breaker is Open after its first failure
C13_Witness ==
    /\ cb_last.op = "record_latency" /\ cb_last.latency_ms < latency_threshold_ms
    /\ cb_calls = MinLatencySamples
    /\ Len(cb.latency_history) = MinLatencySamples
    /\ MeanExceedsThreshold(cb.latency_history)
    /\ cb.state = "open" /\ cb.failure_count = 1

\* C14: a read of the state of an Open breaker returns HalfOpen when
\* timeout_seconds have elapsed since the last failure and Open (so that
\* is_available() is false) when they have not, however the breaker was
\* opened.
C14_OpenUntilTimeout ==
    [][(cb_last'.op = "state" /\ cb_calls' # cb_calls /\ cb.state = "open") =>
          IF cb.last_failure_time # NoTime
             /\ cb_now - cb.last_failure_time >= timeout_seconds
          THEN cb_last'.result = "half_open"
          ELSE cb_last'.result = "open" /\ ~is_available(cb, cb_now)
    ]_vars

\* C15: a run of record_success calls that starts on a HalfOpen breaker
\* leaves it Closed once the run is success_threshold calls long and not
\* Closed while the run is shorter.
C15_ClosesAfterConsecutiveSuccesses ==
    (cb_run.op = "record_success" /\ cb_run.from_state = "half_open") =>
        /\ cb_run.n >= success_threshold => cb.state = "closed"
        /\ cb_run.n < success_threshold => cb.state # "closed"

\* C16: record_failure on a HalfOpen breaker, with or without a latency
\* argument, leaves the breaker Open.
C16_HalfOpenFailureOpens ==
    [][(cb_last'.op = "record_failure" /\ cb_calls' # cb_calls
        /\ cb.state = "half_open") =>
          cb'.state = "open"
    ]_vars

----------------------------------------------------------------------------
(* Claims about the deduplicator *)

\* every ticket so far had the text of the storm, came under its own id and
\* at the same minute: mutually similar tickets within the window
OnlyStormSoFar ==
    dd_now = 0 /\ dd_counts.others = 0 /\ dd_counts.resubmitted = 0

\* C17: while fewer than DUPLICATE_COUNT_THRESHOLD mutually similar tickets
\* have been added within the window there is no Master Incident; when the
\* DUPLICATE_COUNT_THRESHOLD-th has been added there is one, the call
\* returned (true, its id), and it has exactly DUPLICATE_COUNT_THRESHOLD
\* members and suppressed_count one less.
C17_TenthTicketCreatesMaster ==
    OnlyStormSoFar =>
        /\ dd_counts.adds < DUPLICATE_COUNT_THRESHOLD => dd_masters = <<>>
        /\ dd_counts.adds = DUPLICATE_COUNT_THRESHOLD =>
              /\ Len(dd_masters) = 1
              /\ dd_last.is_duplicate /\ dd_last.master_id = dd_masters[1].master_id
              /\ Len(dd_masters[1].ticket_ids) = DUPLICATE_COUNT_THRESHOLD
              /\ dd_masters[1].suppressed_count = DUPLICATE_COUNT_THRESHOLD - 1

\* C18: add_ticket of one more ticket of the storm, within the window of a
\* Master Incident that exists for it, returns (true, the id of that
\* incident), appends the ticket to its members and creates no incident.
C18_LaterTicketJoinsExistingMaster ==
    [][(dd_last'.op = "add_ticket" /\ dd_counts' # dd_counts
        /\ dd_last'.text = "storm" /\ OnlyStormSoFar' /\ Len(dd_masters) = 1) =>
          /\ dd_last'.is_duplicate
          /\ dd_last'.master_id = dd_masters[1].master_id
          /\ Len(dd_masters') = 1
          /\ dd_masters'[1].ticket_ids =
                Append(dd_masters[1].ticket_ids, dd_last'.ticket_id)
    ]_vars

\* C19: mutually similar tickets submitted within the window are made into
\* at most one Master Incident, however many they are.
C19_ClusterMaterializedOnce ==
    OnlyStormSoFar => Len(dd_masters) <= 1

\* C20: after every call each Master Incident has suppressed_count equal to
\* the number of its members minus one, no incident has gone, and the
\* members each incident had are still its first members, in the same order.
C20_MembersAppendOnly ==
    [][/\ \A j \in 1..Len(dd_masters') :
             dd_masters'[j].suppressed_count = Len(dd_masters'[j].ticket_ids) - 1
       /\ Len(dd_masters') >= Len(dd_masters)
       /\ \A j \in 1..Len(dd_masters) :
             /\ dd_masters'[j].master_id = dd_masters[j].master_id
             /\ Len(dd_masters'[j].ticket_ids) >= Len(dd_masters[j].ticket_ids)
             /\ SubSeq(dd_masters'[j].ticket_ids, 1, Len(dd_masters[j].ticket_ids))
                   = dd_masters[j].ticket_ids
    ]_vars

\* a ticket has been linked to an incident made earlier: the call returned
\* (true, its id) and the incident has one member more than it was made with
C20_Witness ==
    /\ dd_last.op = "add_ticket" /\ dd_last.is_duplicate
    /\ Len(dd_masters) = 1 /\ dd_last.master_id = dd_masters[1].master_id
    /\ Len(dd_masters[1].ticket_ids) = DUPLICATE_COUNT_THRESHOLD + 2
    /\ dd_masters[1].suppressed_count = DUPLICATE_COUNT_THRESHOLD + 1
    /\ dd_masters[1].ticket_ids[DUPLICATE_COUNT_THRESHOLD + 2] = dd_last.ticket_id

\* C21: after every add_ticket call, whatever it returned, no entry created
\* more than twice the window ago is left in _tickets.
C21_NoEntryOlderThanTwoWindows ==
    [][(dd_last'.op = "add_ticket" /\ dd_counts' # dd_counts) =>
          \A i \in 1..Len(dd_tickets') :
             dd_now' - dd_tickets'[i].created_at <= DUPLICATE_TIME_WINDOW_MINUTES * 2
    ]_vars

----------------------------------------------------------------------------
(* Claims about preemption in the agent registry *)

\* the Active tickets of the agents that are not Offline
ActiveOnline(ags) ==
    UNION {{t \in Assigned(ags[i]) : t.status = "active"}
           : i \in {j \in 1..Len(ags) : ags[j].status # "offline"}}

\* C26: a ticket that route returns as preempted was, after the sweep that
\* opens the call, an Active ticket of the returned agent whose urgency is
\* the least of all Active tickets on all agents that are not Offline; and a
\* route call at or above the preemption threshold that finds no agent to
\* accept preempts whenever some such ticket is strictly below the incoming
\* urgency.
C26_VictimHasGlobalMinimumUrgency ==
    [][last'.op = "route" =>
         LET swept == auto_complete_expired(agents, now)
         IN  /\ last'.preempted # NoTicket =>
                   \E v \in Assigned(swept[last'.agent_id]) :
                      /\ v.ticket_id = last'.preempted
                      /\ v.status = "active"
                      /\ v.urgency < last'.urgency
                      /\ \A t \in ActiveOnline(swept) : v.urgency <= t.urgency
             /\ (/\ last'.urgency >= PREEMPTION_URGENCY_THRESHOLD
                 /\ \A i \in 1..Len(swept) : ~can_accept_ticket(swept[i])
                 /\ \E t \in ActiveOnline(swept) : t.urgency < last'.urgency)
                  => last'.preempted # NoTicket]_vars

\* C26 witness: a route call has preempted a ticket on the second agent
\* while the first agent, not Offline, holds an Active ticket of higher
\* urgency than the victim's.
C26_Witness ==
    /\ last.op = "route" /\ last.preempted # NoTicket /\ last.agent_id = 2
    /\ agents[1].status # "offline"
    /\ \E t \in Assigned(agents[1]) :
          /\ t.status = "active"
          /\ t.urgency > Get(agents[2].assigned_tickets, last.preempted).urgency
    /\ Get(agents[2].assigned_tickets, last.preempted).status = "paused"

\* C27, as claimed: when several Active tickets on agents that are not
\* Offline share the victim's urgency, the ticket that route pauses is the
\* one of them with the earliest started_at: no other ticket of that urgency
\* started before the victim.
C27_TieFallsToEldest ==
    [][(last'.op = "route" /\ last'.preempted # NoTicket) =>
         LET swept == auto_complete_expired(agents, now)
             v == Get(swept[last'.agent_id].assigned_tickets, last'.preempted)
         IN  \A t \in ActiveOnline(swept) :
                (t.urgency = v.urgency /\ t.ticket_id # v.ticket_id)
                    => v.started_at <= t.started_at]_vars

\* C28, as claimed: whenever route returns an agent, the routed ticket is in
\* that agent's assigned_tickets as Active; and whenever it returns a
\* preempted ticket, that ticket is Paused on the same agent and the call has
\* appended exactly one preemption event, which names that ticket and agent.
C28_RoutedTicketActiveOnReturnedAgent ==
    [][(last'.op = "route" /\ last'.agent_id # NoAgent) =>
         LET held == agents'[last'.agent_id].assigned_tickets
         IN  /\ HasKey(held, last'.ticket_id)
             /\ Get(held, last'.ticket_id).status = "active"
             /\ last'.preempted # NoTicket =>
                   /\ HasKey(held, last'.preempted)
                   /\ Get(held, last'.preempted).status = "paused"
                   /\ Len(preemption_history') = Len(preemption_history) + 1
                   /\ SubSeq(preemption_history', 1, Len(preemption_history)) = preemption_history
                   /\ preemption_history'[Len(preemption_history')].paused_ticket_id = last'.preempted
                   /\ preemption_history'[Len(preemption_history')].agent_id = last'.agent_id
             /\ last'.preempted = NoTicket => preemption_history' = preemption_history]_vars

\* the tickets of agent a that are Paused
PausedOn(a) == {t.ticket_id : t \in {u \in Assigned(a) : u.status = "paused"}}

\* C29: a route call returns (none, none) exactly when, after its sweep, no
\* agent can accept and either the urgency is below the preemption threshold
\* or no agent that is not Offline holds an Active ticket of strictly lower
\* urgency; such a call leaves the agents as the sweep left them, pauses no
\* ticket and appends nothing to the assignment or preemption history; and a
\* route call with urgency below the threshold pauses no ticket and records
\* no preemption.
C29_NoAssignmentChangesNothing ==
    [][last'.op = "route" =>
         LET swept == auto_complete_expired(agents, now)
             stuck == \A i \in 1..Len(swept) : ~can_accept_ticket(swept[i])
             victimless == \A t \in ActiveOnline(swept) : ~(t.urgency < last'.urgency)
         IN  /\ last'.agent_id = NoAgent <=>
                    (stuck /\ (last'.urgency < PREEMPTION_URGENCY_THRESHOLD \/ victimless))
             /\ last'.agent_id = NoAgent =>
                    /\ last'.preempted = NoTicket
                    /\ agents' = swept
                    /\ \A i \in AgentPositions : PausedOn(agents'[i]) \subseteq PausedOn(agents[i])
                    /\ assignment_history' = assignment_history
                    /\ preemption_history' = preemption_history
             /\ last'.urgency < PREEMPTION_URGENCY_THRESHOLD =>
                    /\ last'.preempted = NoTicket
                    /\ \A i \in AgentPositions : PausedOn(agents'[i]) \subseteq PausedOn(agents[i])
                    /\ preemption_history' = preemption_history]_vars

\* C29 witness: a route call below the preemption threshold has returned
\* (none, none) while an agent that is not Offline holds an Active ticket of
\* strictly lower urgency, which is still Active.
C29_Witness ==
    /\ last.op = "route" /\ last.agent_id = NoAgent /\ last.preempted = NoTicket
    /\ last.urgency < PREEMPTION_URGENCY_THRESHOLD
    /\ \E t \in ActiveOnline(agents) : t.urgency < last.urgency

\* C30, as claimed: while the Active tickets keep completing, a ticket that is
\* Paused on an agent is eventually Active on that agent again.
C30_PausedEventuallyResumed ==
    \A i \in AgentIds : \A ticket_id \in ServedTicketIds :
        (/\ i \in AgentPositions
         /\ HasKey(agents[i].assigned_tickets, ticket_id)
         /\ Get(agents[i].assigned_tickets, ticket_id).status = "paused")
        ~> (/\ i \in AgentPositions
            /\ HasKey(agents[i].assigned_tickets, ticket_id)
            /\ Get(agents[i].assigned_tickets, ticket_id).status = "active")

----------------------------------------------------------------------------
(* Claims about the broker *)

\* the ticket ids held under tickets:processing, as members or as elements
InProcessing(b) ==
    b.processing.members \cup {b.processing.elements[j] : j \in 1..Len(b.processing.elements)}

\* C24, as claimed: fail_ticket on a connected broker, whatever error it is
\* given (a message, the empty string or none), returns true, leaves
\* ticket_id out of processing and adds one record of ticket_id and error to
\* the dead-letter list; on a disconnected broker it returns false and
\* changes nothing.
C24_FailRemovesAndDeadLetters ==
    [][(bk_last'.op = "fail_ticket" /\ bk_log' # bk_log) =>
         IF bk.connected
         THEN /\ bk_last'.result = "true"
              /\ bk_last'.ticket_id \notin InProcessing(bk')
              /\ bk'.dead_letter =
                    <<[ticket_id |-> bk_last'.ticket_id, error |-> bk_last'.error]>>
                        \o bk.dead_letter
         ELSE bk_last'.result = "false" /\ bk' = bk]_vars

\* C25, as claimed: a consume_ticket call on a connected broker whose pending
\* queue is not empty returns the message published first among those not
\* yet delivered, takes it off the pending queue and leaves it in processing;
\* the other pending messages stay as they are.
C25_ConsumeMovesOldestToProcessing ==
    [][(bk_last'.op = "consume_ticket" /\ bk_log' # bk_log
        /\ bk.connected /\ bk.queue # <<>>) =>
         /\ bk_last'.result = "ticket"
         /\ bk_last'.ticket_id = bk_log.published[Len(bk_log.consumed) + 1]
         /\ bk'.queue = SubSeq(bk.queue, 1, Len(bk.queue) - 1)
         /\ bk_last'.ticket_id \in InProcessing(bk')]_vars

----------------------------------------------------------------------------
(* Claims about the worker *)

\* the ticket ids of the records in the dead-letter list
InDeadLetter(b) == {b.dead_letter[j].ticket_id : j \in 1..Len(b.dead_letter)}

\* C22, as claimed: whenever the worker is back at the head of its loop, no
\* ticket it has consumed is left in processing, and every ticket whose
\* processing raised has a record in the dead-letter list.
C22_ConsumedTicketLeavesProcessing ==
    wk.pc = "consume" =>
        \A k \in 1..Len(bk_log.consumed) :
            LET ticket_id == bk_log.consumed[k].ticket_id
            IN  /\ ticket_id \notin InProcessing(bk)
                /\ ticket_id \in wk.raised => ticket_id \in InDeadLetter(bk)

\* the tickets of the storm that the deduplicator holds, all created within
\* one window of each other
StormIds == 2..(DUPLICATE_COUNT_THRESHOLD + 1)

StormWithinWindow ==
    /\ \A ticket_id \in StormIds :
          \E j \in 1..Len(dd_tickets) : dd_tickets[j].ticket_id = ticket_id
    /\ \A j, k \in 1..Len(dd_tickets) :
          (dd_tickets[j].ticket_id \in StormIds /\ dd_tickets[k].ticket_id \in StormIds)
              => dd_tickets[k].created_at - dd_tickets[j].created_at
                     < DUPLICATE_TIME_WINDOW_MINUTES

\* C23, as claimed: once ten tickets of the same urgent text have gone
\* through the worker's pipeline within the deduplication window, the
\* notifier has been invoked for at most one of them.
C23_StormAlertsAtMostOnce ==
    StormWithinWindow =>
        Cardinality({j \in 1..Len(wk.alerts) : wk.alerts[j].ticket_id \in StormIds}) <= 1

----------------------------------------------------------------------------
(* Claims about service time, completion and the breaker's execute *)

\* C31: a Paused entry has paused_at set, an Active one has it unset, and a
\* Paused entry's remaining_eta is its ETA less elapsed_before_pause.  Pausing
\* an entry keeps the remaining_eta it had, the remaining_eta stays what it is
\* for as long as the entry is Paused, and resuming keeps it; a Paused entry
\* leaves the agent only by a complete_ticket call that names it.  (A route
\* call for the id of an entry replaces the entry and is no resumption.)
C31_PausedTimeIsNotService ==
    [][\A i \in AgentPositions : \A t \in Assigned(agents[i]) :
          /\ t.status = "paused" =>
                /\ t.paused_at # NoTime
                /\ remaining_eta(t, now) = t.eta_seconds - t.elapsed_before_pause
          /\ t.status = "active" => t.paused_at = NoTime
          /\ (t.status = "paused" /\ ~HasKey(agents'[i].assigned_tickets, t.ticket_id)) =>
                (last'.op = "complete_ticket" /\ last'.ticket_id = t.ticket_id)
          /\ (/\ HasKey(agents'[i].assigned_tickets, t.ticket_id)
              /\ ~(last'.op = "route" /\ last'.ticket_id = t.ticket_id)
              /\ \/ t.status = "paused"
                 \/ Get(agents'[i].assigned_tickets, t.ticket_id).status = "paused") =>
                remaining_eta(Get(agents'[i].assigned_tickets, t.ticket_id), now')
                    = remaining_eta(t, now)
      ]_vars

\* C31 witness: a ticket that was paused after half its ETA has been resumed
\* by the completion of another ticket and is Active again.
C31_Witness ==
    /\ last.op = "complete_ticket" /\ last.ok
    /\ \E i \in AgentPositions : \E t \in Assigned(agents[i]) :
          /\ t.status = "active"
          /\ t.elapsed_before_pause > 0
          /\ t.started_at = now
          /\ remaining_eta(t, now) = t.eta_seconds - t.elapsed_before_pause

\* the entries of agent a that is_expired() at clock
ExpiredOn(a, clock) ==
    {t \in Assigned(a) : t.status = "active" /\ remaining_eta(t, clock) <= 0}

\* C32, as claimed: a route call first sweeps every agent.  Each Active entry
\* whose ETA has elapsed is removed, the load goes down by one for each of
\* them, as many Paused entries as entries were removed (or all of them, if
\* there are fewer) are Active again, none of those left Paused being more
\* urgent than one resumed, and the other Active entries stay as they are;
\* the call then changes no agent but the one it returns.
C32_RouteSweepsExpiredFirst ==
    [][last'.op = "route" =>
         LET swept == auto_complete_expired(agents, now)
         IN  \A i \in AgentPositions :
               LET a == agents[i]
                   s == swept[i]
                   expired == ExpiredOn(a, now)
                   paused == {t \in Assigned(a) : t.status = "paused"}
                   resumed == {t \in paused :
                                  Get(s.assigned_tickets, t.ticket_id).status = "active"}
               IN  /\ \A t \in expired : ~HasKey(s.assigned_tickets, t.ticket_id)
                   /\ s.current_load = a.current_load - Cardinality(expired)
                   /\ Cardinality(resumed) =
                         IF Cardinality(expired) < Cardinality(paused)
                         THEN Cardinality(expired) ELSE Cardinality(paused)
                   /\ \A r \in resumed : \A t \in paused \ resumed : t.urgency <= r.urgency
                   /\ \A t \in Assigned(a) \ (expired \cup paused) :
                         /\ HasKey(s.assigned_tickets, t.ticket_id)
                         /\ Get(s.assigned_tickets, t.ticket_id) = t
                   /\ i # last'.agent_id => agents'[i] = s
    ]_vars

\* C33, as claimed: dequeue never returns a ticket while the queue holds a
\* ticket of the same priority that was enqueued before it (_ticket_index
\* keeps the ids in the order of their first enqueue).
C33_EqualUrgencyInArrivalOrder ==
    [][(qlast'.op = "dequeue" /\ qlast'.ok
        /\ HasKey(ticket_index, qlast'.ticket.ticket_id)
        /\ Get(ticket_index, qlast'.ticket.ticket_id) = qlast'.ticket) =>
          \A j \in 1..Len(ticket_index) :
             (/\ ticket_index[j].priority = qlast'.ticket.priority
              /\ ticket_index[j].ticket_id # qlast'.ticket.ticket_id
              /\ FirstEqual(heap, ticket_index[j], 1) # 0) =>
                KeyPos(ticket_index, qlast'.ticket.ticket_id, 1) < j
    ]_vars

\* the ring after latency_ms is appended to it
RingWith(history, latency_ms) ==
    IF Len(history) + 1 > max_latency_history
    THEN SubSeq(Append(history, latency_ms), 2, Len(history) + 1)
    ELSE Append(history, latency_ms)

\* C34, as claimed: execute on a breaker that is Open with its timeout not
\* yet elapsed rejects the call and changes nothing; otherwise it calls func
\* once and appends the latency to the ring, and it leaves no failure counted
\* in a Closed breaker when func returned, and counts one failure when func
\* raised.
C34_ExecuteGatesAndRecords ==
    [][(cb_last'.op = "execute" /\ cb_calls' # cb_calls) =>
         IF cb.state = "open" /\ ~should_attempt_reset(cb, cb_now)
         THEN cb_last'.result = "rejected" /\ cb' = cb
         ELSE /\ cb_last'.result \in {"returned", "raised"}
              /\ cb'.latency_history = RingWith(cb.latency_history, cb_last'.latency_ms)
              /\ (cb_last'.result = "returned" /\ cb'.state = "closed") =>
                    cb'.failure_count = 0
              /\ cb_last'.result = "raised" =>
                    /\ cb'.failure_count = cb.failure_count + 1
                    /\ cb'.last_failure_time = cb_now
    ]_vars

\* C35, as claimed: a call through execute that returns with a latency under
\* the threshold on a breaker that reads HalfOpen (as it does once the timeout
\* has elapsed after ten calls of 600 ms opened it) never leaves the breaker
\* Open, and the second such call leaves it Closed.
C35_FastCallsCloseHalfOpen ==
    [][(/\ cb_last'.op = "execute" /\ cb_calls' # cb_calls
        /\ cb_last'.result = "returned"
        /\ cb_last'.latency_ms <= latency_threshold_ms
        /\ state(cb, cb_now).state = "half_open") =>
          /\ cb'.state # "open"
          /\ cb.success_count + 1 >= success_threshold => cb'.state = "closed"
    ]_vars

\* C36, as claimed: the notifier has been invoked only for tickets of an
\* urgency over the threshold that were not folded into a master incident;
\* and once the worker is back at the head of its loop, a ticket whose
\* notification failed has gone through the pipeline without an exception
\* and has been acked.
C36_NotifierGatedAndBestEffort ==
    \A j \in 1..Len(wk.alerts) :
        LET ticket_id == wk.alerts[j].ticket_id
        IN  /\ UrgencyOfText(TextOf(ticket_id)) > HIGH_URGENCY_THRESHOLD
            /\ ticket_id \notin wk.suppressed
            /\ (~wk.alerts[j].webhook_sent /\ wk.ticket # ticket_id) =>
                  /\ ticket_id \notin wk.raised
                  /\ ticket_id \in wk.acked

\* C37: a classify call always returns a result; while the breaker reads
\* Open the transformer is not asked (the breaker and _use_transformer stay as
\* read) and the keyword classifier answers; when the transformer is asked
\* and raises, the keyword classifier answers and the breaker counts exactly
\* one failure more, its latency ring untouched.
C37_ClassifyFallsBack ==
    [][(cb_calls' # cb_calls /\ cb_last'.op = "classify") =>
         LET read == state(cb, cb_now)
             raises == cb_last'.latency_ms = NoLatency
         IN  /\ cb_last'.result \in {"transformer", "baseline", "baseline_fallback"}
             /\ read.state = "open" =>
                   /\ cb_last'.result = "baseline"
                   /\ cb' = read
                   /\ wk' = wk
             /\ (read.state # "open" /\ wk.use_transformer /\ raises) =>
                   /\ cb_last'.result = "baseline_fallback"
                   /\ cb'.failure_count = read.failure_count + 1
                   /\ cb'.latency_history = read.latency_history
                   /\ cb'.last_failure_time = cb_now]_vars

\* five raising transformer calls have opened the breaker, and the next
\* classify call was answered by the keyword classifier alone
C37_Witness ==
    /\ cb_last.op = "classify"
    /\ cb_last.result = "baseline"
    /\ wk.use_transformer
    /\ cb.state = "open"
    /\ cb.failure_count = failure_threshold
    /\ cb.latency_history = <<>>

AllExited == Threads # {} /\ \A i \in Threads : pq.threads[i].pc = "exited"

\* C38, as claimed: once stop_worker has been called, every thread that
\* start_worker started eventually leaves process_queue, and once they have
\* left, no ticket that process_queue consumed is still in processing.
C38_StopWorkerEndsLoop ==
    /\ (pq.stopped /\ Threads # {}) ~> AllExited
    /\ []((pq.stopped /\ AllExited) => pq.consumed \cap InProcessing(bk) = {})

\* C39, as claimed: in every reachable state no agent holds more Active
\* tickets than its capacity.
C39_ActiveWithinCapacity ==
    \A i \in 1..Len(agents) : Len(ActiveTickets(agents[i])) <= agents[i].capacity

\* C40, as claimed: complete_ticket with an agent id that is not registered,
\* or with a ticket id that is not among that agent's assigned tickets,
\* returns false and leaves every agent as it was.
C40_UnknownCompletionChangesNothing ==
    [][(calls' # calls /\ last'.op = "complete_ticket"
        /\ (\/ last'.agent_id \notin 1..Len(agents)
            \/ ~HasKey(agents[last'.agent_id].assigned_tickets, last'.ticket_id))) =>
           (~last'.ok /\ agents' = agents)]_vars

====
